---- MODULE Spec2Model ----
(***************************************************************************)
(* A model of the Lucre game / Vulkan render engine:                       *)
(*   - TransformComponent (engine/scene/components.cpp): translation,      *)
(*     rotation, scale and the lazily recomputed matrices;                 *)
(*   - the per-frame pass sequence of MainScene / BeachScene / Lucre;      *)
(*   - VK_LightSystem (point-light ordering and the uniform buffer);       *)
(*   - VK_RenderSystemPbrNoMap (geometry-pass draw enumeration).           *)
(*                                                                         *)
(* Numbers: lengths are integers, angles are counted in quarter turns      *)
(* (1 = pi/2), so every rotation matrix has integer entries; the entries   *)
(* of an inverse are exact fractions <<numerator, denominator>>.           *)
(***************************************************************************)
EXTENDS Integers, Sequences, FiniteSets, TLC

VARIABLES
    \* ---- one TransformComponent (components.cpp)
    ctor,            \* which constructor built it: "default" or "mat4"
    m_Scale,         \* glm::vec3
    m_Rotation,      \* glm::vec3, Euler angles in quarter turns
    m_Translation,   \* glm::vec3
    m_Mat4,          \* cached model matrix (4x4, rows)
    m_NormalMatrix,  \* cached normal matrix (3x3 of fractions)
    m_Dirty,         \* the dirty flag
    tcall,           \* the last call made on the component and what it returned
    mutated,         \* a mutator has been called since construction
    ops,             \* number of calls made on the component
    \* ---- one frame of Lucre::OnUpdate and the scene's OnUpdate
    m_CurrentScene,  \* "main" or "beach"
    m_GUIisRunning,  \* Lucre::m_GUIisRunning
    pc,              \* position in Lucre::OnUpdate; 0 between two frames
    timestep,        \* the frame's timestep
    reg,             \* component values of the scene's registry
    heroStatics,     \* BeachScene::AnimateHero, static float deltaX and deformX
    bananaBody,      \* height of the banana's physics body (MainScene)
    frameLog,        \* renderer calls of the frame, each with the values it reads
    \* ---- the MeshComponents of MainScene::m_Guybrush and the geometry pass
    m_Enabled,       \* MeshComponent::m_Enabled of m_Guybrush[i]
    previousFrame,   \* MainScene::OnUpdate, static uint previousFrame
    pbrView,         \* the m_Guybrush indices in view<Mesh, Transform, PbrNoMapTag>
    drawn,           \* the bind+draw pairs of the last RenderEntities, in order
    skipped,         \* entities a RenderEntities call has left out so far
    meshCall,        \* the last call of the geometry-pass model
    binds,           \* the pipelines the last render-system call has bound, in order
    pushed,          \* entities the last render-system call pushed constants for
    \* ---- VK_LightSystem and the point lights of the registry
    lightTranslation,  \* entity -> translation of its TransformComponent, or NoLight
                       \* if it is not in view<PointLightComponent, TransformComponent>
    cameraPosition,    \* frameInfo.m_Camera->GetPosition()
    m_SortedLight,     \* std::map<float, entt::entity>: squared distance -> entity
    ubo,               \* GlobalUniformBuffer: m_PointLights, m_NumberOfActivePointLights
    uboEntities,       \* the entity whose data each written ubo.m_PointLights[i] holds
    updateCamera,      \* the camera position the last Update has used
    renderDraws,       \* the entities the last Render has drawn, in draw order
    terminated,        \* the process was ended by a failed ASSERT
    changes,           \* registry and camera changes since the last Update
    lightCall,         \* the last call of the light-system model
    \* ---- the ScriptComponents of the two scenes and Engine::RunScripts
    scriptScene,     \* application->GetScene(): "main" or "beach"
    sceneState,      \* scene -> "constructed", "loaded" or "started"
    scriptView,      \* scene -> the entities of registry.view<ScriptComponent>()
    duck,            \* scene -> what m_Dictionary.Retrieve gives for the duck
    m_Script,        \* scene -> entity -> ScriptComponent::m_Script is set
    startCalls,      \* scene -> entity -> calls of m_Script->Start() so far
    onUpdateCalls,   \* entity -> calls of m_Script->OnUpdate in the last RunScripts
    log,             \* Engine::RunScripts, static std::vector<uint> log
    warned,          \* entity -> "no script loaded" warnings logged so far
    switches,        \* scene changes so far
    scriptCall,      \* the last call of the script model
    \* ---- the engine: main loop, Engine::OnUpdate, Engine::OnEvent
    m_Running,       \* Engine::m_Running
    m_Paused,        \* Engine::m_Paused
    loopPc,          \* position in the main loop: "top", "polling", "body" or "left"
    polled,          \* events delivered in the running Engine::OnUpdate
    loopCalls,       \* the calls the main loop has made in this iteration
    pausedAtTest,    \* what engine->IsPaused() returned in this iteration
    lastResize,      \* the last WindowResizeEvent was of size zero: "none", "zero", "nonzero"
    windowOK,        \* what m_Window->IsOK() returned last
    m_LayerStack,    \* the layers, in the order they were pushed
    lastEvent,       \* the last event given to Engine::OnEvent
    receivers,       \* who was offered the last event after the engine, in order
    \* ---- the scenes' Dictionary and the entity handles retrieved from it
    dictionary,      \* the names the Dictionary of the scene file knows
    retrieved,       \* member -> the handle Retrieve has returned for it
    registryGets,    \* the handles the last call has used in registry.get / view.get
    dictState,       \* scene -> "constructed", "loaded" or "started"
    dictCall,        \* the last call of the dictionary model
    \* ---- VK_Device and the Vulkan objects made during construction
    vkObjects,       \* object -> "none", "created" or "failed" (its vkCreate failed)
    deviceSteps,     \* the Vulkan calls the last operation made after a creation,
                     \* each with the object it was given and that object's state
    criticalLog,     \* the LOG_CORE_CRITICAL messages of the last operation
    processEnded,    \* the process was ended during the last operation
    deviceCall,      \* the last operation of the device model
    \* ---- the directional lights of BeachScene and their shadow passes
    shadowScene,         \* the scene that runs: "main" or "beach"
    shadowState,         \* the scene: "constructed" or "started"
    shadowFrame,         \* the number of the frame: OnUpdate calls so far
    bulbRotation,        \* rotation (quarter turns) of m_Lightbulb0 and m_Lightbulb1
    directionalView,     \* the entities of registry.view<DirectionalLightComponent>()
    directionalLight,    \* entity -> its DirectionalLightComponent
    m_DirectionalLights, \* BeachScene::m_DirectionalLights: pointers to components,
                         \* each with the frame in which it was taken
    submitted,           \* the lights the last OnUpdate gave to SubmitShadows
    uboDirectional,      \* ubo.m_DirectionalLight and m_NumberOfActiveDirectionalLights
    shadowCall,          \* the last call of the directional-light model
    \* ---- VK_Device: one-shot upload commands and the device queues
    uploadPc,        \* position of the uploading thread: "idle", "recording" or "waiting"
    uploadCaller,    \* the function that began the commands: CopyBuffer or CopyBufferToImage
    commandBuffers,  \* command buffer -> its pool and state
    m_DeviceQueues,  \* queue -> the work submitted to it and not yet executed
    uploadEvents,    \* the queue and pool calls of the upload path, in order
    \* ---- Engine::m_EventQueue: QueueEvent and the drain loop of Engine::OnUpdate
    m_EventQueue,  \* Engine::m_EventQueue, the queued events in order
    queuedEvents,  \* events given to QueueEvent so far; they are numbered 1, 2, ...
    drainPc,       \* Engine::OnUpdate: "idle", "iterating" or "clearing"
    drainIt,       \* the position of the range-for loop in m_EventQueue
    drainEnd,      \* the end of the range the loop was started with
    dispatched,    \* the events passed to Engine::OnEvent from the queue, in order
    \* ---- the entry point engine() (engine.cpp) and Engine::Start
    entryPc,           \* position in engine(): "begin", "engineStarted", "loopTop", "afterOnUpdate", "returned"
    entryRunning,      \* Engine::m_Running
    appEventCallback,  \* engine->SetAppEventCallback was called
    entryCalls,        \* the calls engine() has made and what they returned, in order
    entryReturn,       \* what engine() returned: "none", "0" or "-1"
    iterations,        \* iterations of the main loop so far
    \* ---- Lucre: the game state, OnAppEvent and Cancel
    gsState,         \* m_GameState.GetState()
    gsNextState,     \* the state given to m_GameState.SetNextState last
    timerResets,     \* ResetTimer calls on the cutscene so far
    gsGUIisRunning,  \* Lucre::m_GUIisRunning
    appEvents,       \* application events and Cancel calls so far
    gsCall,          \* the last call of the game-state model, with the scene it asked for
    \* ---- VK_Device::PickPhysicalDevice and the enumerated physical devices
    physicalDevices,      \* the devices vkEnumeratePhysicalDevices returns, in order
    m_BlacklistedDevice,  \* CoreSettings::m_BlacklistedDevice, a string
    m_PhysicalDevice,     \* index of the selected device, 0 for VK_NULL_HANDLE
    m_Properties,         \* index of the device m_Properties describes, 0 for none
    ignoredBlacklisted,   \* the devices logged as ignored for the blacklist
    pickCall,             \* the last call of the device-selection model
    \* ---- VK_Device: constructor, Shutdown and destructor
    m_EnableValidationLayers,  \* whether the validation layers are enabled
    lifetimePc,                \* none, alive, shut down or destroyed
    vkCalls,                   \* the calls the constructor and the destructor made, in order
    vkHandles,                   \* the state of each handle of the device
    waitedIdle                 \* the queues Shutdown has waited for

transformVars ==
    <<ctor, m_Scale, m_Rotation, m_Translation, m_Mat4, m_NormalMatrix, m_Dirty,
      tcall, mutated, ops>>

frameVars ==
    <<m_CurrentScene, m_GUIisRunning, pc, timestep, reg, heroStatics, bananaBody, frameLog>>

meshVars == <<m_Enabled, previousFrame, pbrView, drawn, skipped, meshCall, binds, pushed>>

lightVars ==
    <<lightTranslation, cameraPosition, m_SortedLight, ubo, uboEntities, updateCamera,
      renderDraws, terminated, changes, lightCall>>

scriptVars ==
    <<scriptScene, sceneState, scriptView, duck, m_Script, startCalls, onUpdateCalls,
      log, warned, switches, scriptCall>>

engineVars ==
    <<m_Running, m_Paused, loopPc, polled, loopCalls, pausedAtTest, lastResize, windowOK,
      m_LayerStack, lastEvent, receivers>>

dictVars == <<dictionary, retrieved, registryGets, dictState, dictCall>>

deviceVars == <<vkObjects, deviceSteps, criticalLog, processEnded, deviceCall>>

shadowVars ==
    <<shadowScene, shadowState, shadowFrame, bulbRotation, directionalView, directionalLight,
      m_DirectionalLights, submitted, uboDirectional, shadowCall>>

uploadVars ==
    <<uploadPc, uploadCaller, commandBuffers, m_DeviceQueues, uploadEvents>>

queueVars ==
    <<m_EventQueue, queuedEvents, drainPc, drainIt, drainEnd, dispatched>>

entryVars ==
    <<entryPc, entryRunning, appEventCallback, entryCalls, entryReturn, iterations>>

gamestateVars ==
    <<gsState, gsNextState, timerResets, gsGUIisRunning, appEvents, gsCall>>

pickVars ==
    <<physicalDevices, m_BlacklistedDevice, m_PhysicalDevice, m_Properties, ignoredBlacklisted, pickCall>>

lifetimeVars ==
    <<m_EnableValidationLayers, lifetimePc, vkCalls, vkHandles, waitedIdle>>

vars ==
    <<transformVars, frameVars, meshVars, lightVars, scriptVars,
      engineVars, dictVars, deviceVars, shadowVars, uploadVars,
      queueVars, entryVars, gamestateVars, pickVars, lifetimeVars>>

\* what a step of one part leaves alone
TransformRest ==
    UNCHANGED <<frameVars, meshVars, lightVars, scriptVars,
                engineVars, dictVars, deviceVars, shadowVars,
                uploadVars, queueVars, entryVars, gamestateVars,
                pickVars, lifetimeVars>>
FrameRest ==
    UNCHANGED <<transformVars, meshVars, lightVars, scriptVars,
                engineVars, dictVars, deviceVars, shadowVars,
                uploadVars, queueVars, entryVars, gamestateVars,
                pickVars, lifetimeVars>>
MeshRest ==
    UNCHANGED <<transformVars, frameVars, lightVars, scriptVars,
                engineVars, dictVars, deviceVars, shadowVars,
                uploadVars, queueVars, entryVars, gamestateVars,
                pickVars, lifetimeVars>>
LightRest ==
    UNCHANGED <<transformVars, frameVars, meshVars, scriptVars,
                engineVars, dictVars, deviceVars, shadowVars,
                uploadVars, queueVars, entryVars, gamestateVars,
                pickVars, lifetimeVars>>
ScriptRest ==
    UNCHANGED <<transformVars, frameVars, meshVars, lightVars,
                engineVars, dictVars, deviceVars, shadowVars,
                uploadVars, queueVars, entryVars, gamestateVars,
                pickVars, lifetimeVars>>
EngineRest ==
    UNCHANGED <<transformVars, frameVars, meshVars, lightVars,
                scriptVars, dictVars, deviceVars, shadowVars,
                uploadVars, queueVars, entryVars, gamestateVars,
                pickVars, lifetimeVars>>
DictRest ==
    UNCHANGED <<transformVars, frameVars, meshVars, lightVars,
                scriptVars, engineVars, deviceVars, shadowVars,
                uploadVars, queueVars, entryVars, gamestateVars,
                pickVars, lifetimeVars>>
DeviceRest ==
    UNCHANGED <<transformVars, frameVars, meshVars, lightVars,
                scriptVars, engineVars, dictVars, shadowVars,
                uploadVars, queueVars, entryVars, gamestateVars,
                pickVars, lifetimeVars>>
ShadowRest ==
    UNCHANGED <<transformVars, frameVars, meshVars, lightVars,
                scriptVars, engineVars, dictVars, deviceVars,
                uploadVars, queueVars, entryVars, gamestateVars,
                pickVars, lifetimeVars>>
UploadRest ==
    UNCHANGED <<transformVars, frameVars, meshVars, lightVars,
                scriptVars, engineVars, dictVars, deviceVars,
                shadowVars, queueVars, entryVars, gamestateVars,
                pickVars, lifetimeVars>>
QueueRest ==
    UNCHANGED <<transformVars, frameVars, meshVars, lightVars,
                scriptVars, engineVars, dictVars, deviceVars,
                shadowVars, uploadVars, entryVars, gamestateVars,
                pickVars, lifetimeVars>>
EntryRest ==
    UNCHANGED <<transformVars, frameVars, meshVars, lightVars,
                scriptVars, engineVars, dictVars, deviceVars,
                shadowVars, uploadVars, queueVars, gamestateVars,
                pickVars, lifetimeVars>>
GamestateRest ==
    UNCHANGED <<transformVars, frameVars, meshVars, lightVars,
                scriptVars, engineVars, dictVars, deviceVars,
                shadowVars, uploadVars, queueVars, entryVars,
                pickVars, lifetimeVars>>
PickRest ==
    UNCHANGED <<transformVars, frameVars, meshVars, lightVars,
                scriptVars, engineVars, dictVars, deviceVars,
                shadowVars, uploadVars, queueVars, entryVars,
                gamestateVars, lifetimeVars>>
LifetimeRest ==
    UNCHANGED <<transformVars, frameVars, meshVars, lightVars,
                scriptVars, engineVars, dictVars, deviceVars,
                shadowVars, uploadVars, queueVars, entryVars,
                gamestateVars, pickVars>>

-----------------------------------------------------------------------------
(* Bounds *)

\* calls made on one TransformComponent in one behaviour
MaxOps == 3

\* the camera moves on 0..MaxCam
MaxCam == 1

\* the height the banana's physics body starts at
MaxHeight == 2

\* size of GlobalUniformBuffer::m_PointLights (MAX_LIGHTS, scaled down)
MAX_LIGHTS == 2

\* changes of the registry and the camera between two calls of Update
MaxChanges == 1

\* number of sprites of the horn animation (HORN_ANIMATION_SPRITES, scaled down)
HornSprites == 3

\* entities with a ScriptComponent in one scene
MaxScripts == 3

\* physical devices vkEnumeratePhysicalDevices returns
MaxDevices == 2

\* application events and Cancel calls in one behaviour
MaxAppEvents == 3

\* iterations of the main loop in one behaviour
MaxIterations == 3

\* events queued with QueueEvent in one behaviour
MaxQueued == 5

\* one-shot uploads in one behaviour
MaxUploads == 3

\* per-frame submissions waiting in the graphics queue at the start
MaxGraphicsWork == 2

\* frames of BeachScene in one behaviour
MaxFrames == 3

\* scene changes in one behaviour
MaxSwitches == 1

\* layers on the layer stack
MaxLayers == 2

\* events delivered in one Engine::OnUpdate
MaxEvents == 2

-----------------------------------------------------------------------------
(* Vectors, matrices, fractions *)

Abs(x) == IF x < 0 THEN -x ELSE x

RECURSIVE Gcd(_, _)
Gcd(a, b) == IF b = 0 THEN a ELSE Gcd(b, a % b)

\* the fraction n/d in lowest terms with a positive denominator; d = 0 is the
\* result of dividing by zero (inf or nan in IEEE arithmetic)
Frac(n, d) ==
    IF d = 0 THEN <<"nan">>
    ELSE LET g == Gcd(Abs(n), Abs(d))
             s == IF d < 0 THEN -1 ELSE 1
         IN  <<s * (n \div g), s * (d \div g)>>

VecAdd(a, b) == <<a[1] + b[1], a[2] + b[2], a[3] + b[3]>>

Dot(a, b) == a[1] * b[1] + a[2] * b[2] + a[3] * b[3]

\* glm::length of a vector whose length is a whole number
Length(v) == CHOOSE n \in 0..(Abs(v[1]) + Abs(v[2]) + Abs(v[3])) : n * n = Dot(v, v)

Identity4 == <<<<1, 0, 0, 0>>, <<0, 1, 0, 0>>, <<0, 0, 1, 0>>, <<0, 0, 0, 1>>>>

\* the product of two 4x4 matrices
MatMul(A, B) ==
    LET e(i, j) == A[i][1] * B[1][j] + A[i][2] * B[2][j] + A[i][3] * B[3][j]
                   + A[i][4] * B[4][j]
        row(i) == <<e(i, 1), e(i, 2), e(i, 3), e(i, 4)>>
    IN  <<row(1), row(2), row(3), row(4)>>

\* glm::transpose of a 3x3 matrix
Transpose(A) ==
    <<<<A[1][1], A[2][1], A[3][1]>>,
      <<A[1][2], A[2][2], A[3][2]>>,
      <<A[1][3], A[2][3], A[3][3]>>>>

\* glm::mat3(mat4): the upper-left 3x3
Mat3Of(M) ==
    <<<<M[1][1], M[1][2], M[1][3]>>,
      <<M[2][1], M[2][2], M[2][3]>>,
      <<M[3][1], M[3][2], M[3][3]>>>>

Det3(A) ==
      A[1][1] * (A[2][2] * A[3][3] - A[2][3] * A[3][2])
    - A[1][2] * (A[2][1] * A[3][3] - A[2][3] * A[3][1])
    + A[1][3] * (A[2][1] * A[3][2] - A[2][2] * A[3][1])

\* the cofactor of entry (i, j) of a 3x3 matrix
Cofactor(A, i, j) ==
    LET r1 == IF i = 1 THEN 2 ELSE 1
        r2 == IF i = 3 THEN 2 ELSE 3
        c1 == IF j = 1 THEN 2 ELSE 1
        c2 == IF j = 3 THEN 2 ELSE 3
        sign == IF (i + j) % 2 = 0 THEN 1 ELSE -1
    IN  sign * (A[r1][c1] * A[r2][c2] - A[r1][c2] * A[r2][c1])

\* glm::inverse(mat3): adjugate over determinant, entries as fractions
Inverse3(A) ==
    LET d == Det3(A)
        e(i, j) == Frac(Cofactor(A, j, i), d)
        row(i) == <<e(i, 1), e(i, 2), e(i, 3)>>
    IN  <<row(1), row(2), row(3)>>

\* glm::scale(glm::mat4(1.0f), s)
ScaleMat(s) ==
    <<<<s[1], 0, 0, 0>>, <<0, s[2], 0, 0>>, <<0, 0, s[3], 0>>, <<0, 0, 0, 1>>>>

\* glm::translate(glm::mat4(1.0f), t)
TranslateMat(t) ==
    <<<<1, 0, 0, t[1]>>, <<0, 1, 0, t[2]>>, <<0, 0, 1, t[3]>>, <<0, 0, 0, 1>>>>

\* cosine and sine of k quarter turns
Cos4(k) == CASE k % 4 = 0 -> 1 [] k % 4 = 2 -> -1 [] OTHER -> 0
Sin4(k) == CASE k % 4 = 1 -> 1 [] k % 4 = 3 -> -1 [] OTHER -> 0

RotX(k) == <<<<1, 0, 0, 0>>, <<0, Cos4(k), -Sin4(k), 0>>, <<0, Sin4(k), Cos4(k), 0>>, <<0, 0, 0, 1>>>>
RotY(k) == <<<<Cos4(k), 0, Sin4(k), 0>>, <<0, 1, 0, 0>>, <<-Sin4(k), 0, Cos4(k), 0>>, <<0, 0, 0, 1>>>>
RotZ(k) == <<<<Cos4(k), -Sin4(k), 0, 0>>, <<Sin4(k), Cos4(k), 0, 0>>, <<0, 0, 1, 0>>, <<0, 0, 0, 1>>>>

\* glm::toMat4(glm::quat(eulerAngles)): the quaternion built from Euler angles
\* (pitch x, yaw y, roll z) is qz * qy * qx
RotationMat(r) == MatMul(RotZ(r[3]), MatMul(RotY(r[2]), RotX(r[1])))

\* glm::eulerAngles(quat): pitch and roll in (-pi, pi], yaw in [-pi/2, pi/2].
\* A quaternion is written as the rotation matrix it stands for; the ones used
\* here have cos(yaw) # 0, where the angles are unique.
EulerTable == {<<e, RotationMat(e)>> : e \in {<<x, 0, z>> : x \in -1..2, z \in -1..2}}

EulerAngles(q) == (CHOOSE p \in EulerTable : p[2] = q)[1]

-----------------------------------------------------------------------------
(* TransformComponent *)

\* RecalculateMatrices, line 171: translation * rotation * scale
ModelMat(s, r, t) == MatMul(TranslateMat(t), MatMul(RotationMat(r), ScaleMat(s)))

\* RecalculateMatrices, line 172: glm::transpose(glm::inverse(glm::mat3(m_Mat4)))
NormalMat(M) == Transpose(Inverse3(Mat3Of(M)))

\* glm::decompose for a matrix without skew and perspective: the translation
\* is the last column, the scale the lengths of the first three columns, the
\* rotation what is left of those columns once they are normalised
Decompose(M) ==
    LET col(j) == <<M[1][j], M[2][j], M[3][j]>>
        scale == <<Length(col(1)), Length(col(2)), Length(col(3))>>
        row(i) == <<M[i][1] \div scale[1], M[i][2] \div scale[2], M[i][3] \div scale[3], 0>>
        rot == <<row(1), row(2), row(3), <<0, 0, 0, 1>>>>
    IN  [scale |-> scale, rotation |-> rot, translation |-> col(4)]

\* what an object that was never written may hold
Zero4 == <<<<0, 0, 0, 0>>, <<0, 0, 0, 0>>, <<0, 0, 0, 0>>, <<0, 0, 0, 0>>>>
Zero3 ==
    <<<<<<0, 1>>, <<0, 1>>, <<0, 1>>>>,
      <<<<0, 1>>, <<0, 1>>, <<0, 1>>>>,
      <<<<0, 1>>, <<0, 1>>, <<0, 1>>>>>>
One3 ==
    <<<<<<1, 1>>, <<0, 1>>, <<0, 1>>>>,
      <<<<0, 1>>, <<1, 1>>, <<0, 1>>>>,
      <<<<0, 1>>, <<0, 1>>, <<1, 1>>>>>>
\* (all zero, or the identity a glm build with constructor initialisation leaves)
Uninit == {[mat4 |-> Zero4, mat3 |-> Zero3], [mat4 |-> Identity4, mat3 |-> One3]}

\* arguments the callers pass
ScaleVecArgs == {<<1, 1, 1>>, <<2, 1, 1>>}
ScaleArgs == {1, 2}
RotationVecArgs == {<<0, 0, 0>>, <<1, 0, 0>>}
AngleArgs == {0, 1}
QuatArgs == {RotationMat(<<0, 0, 0>>), RotationMat(<<0, 2, 0>>)}
TranslationVecArgs == {<<0, 0, 0>>, <<0, 1, 2>>}
TranslationArgs == {0, 1}
DeltaArgs == {<<0, 0, 0>>, <<0, 1, 0>>}
Mat4Args ==
    {ModelMat(<<1, 1, 1>>, <<0, 0, 0>>, <<0, 0, 0>>),
     ModelMat(<<2, 1, 1>>, <<0, 0, 1>>, <<0, 1, 0>>)}

NoCall == [op |-> "none", ret |-> <<>>, dirtyBefore |-> FALSE, same |-> FALSE]

\* TransformComponent::TransformComponent()
TransformDefaultCtor ==
    /\ ctor = "default"
    /\ m_Scale = <<1, 1, 1>>
    /\ m_Rotation = <<0, 0, 0>>
    /\ m_Translation = <<0, 0, 0>>
    /\ m_Dirty = TRUE
    /\ \E u \in Uninit : m_Mat4 = u.mat4 /\ m_NormalMatrix = u.mat3

\* TransformComponent::TransformComponent(const glm::mat4& transform)
TransformMat4Ctor ==
    \E transform \in Mat4Args :
        /\ ctor = "mat4"
        /\ m_Mat4 = transform
        /\ m_Dirty = FALSE
        /\ m_Scale = Decompose(transform).scale
        /\ m_Translation = Decompose(transform).translation
        /\ m_Rotation = EulerAngles(Decompose(transform).rotation)
        /\ \E u \in Uninit : m_NormalMatrix = u.mat3

TransformIdle ==
    /\ ctor = "default"
    /\ m_Scale = <<1, 1, 1>>
    /\ m_Rotation = <<0, 0, 0>>
    /\ m_Translation = <<0, 0, 0>>
    /\ m_Dirty = TRUE
    /\ m_Mat4 = Zero4
    /\ m_NormalMatrix = Zero3
    /\ tcall = NoCall
    /\ mutated = FALSE
    /\ ops = 0

TransformInit ==
    /\ TransformDefaultCtor \/ TransformMat4Ctor
    /\ tcall = NoCall
    /\ mutated = FALSE
    /\ ops = 0

\* bookkeeping of one call on the component
Called(name, ret, isMutator) ==
    /\ ops < MaxOps
    /\ ops' = ops + 1
    /\ mutated' = (mutated \/ isMutator)
    /\ tcall' = [op |-> name, ret |-> ret, dirtyBefore |-> m_Dirty,
                 same |-> <<m_Scale', m_Rotation', m_Translation'>>
                          = <<m_Scale, m_Rotation, m_Translation>>]
    /\ UNCHANGED ctor
    /\ TransformRest

SetScaleVec(scale) ==
    /\ m_Scale' = scale
    /\ m_Dirty' = TRUE
    /\ UNCHANGED <<m_Rotation, m_Translation, m_Mat4, m_NormalMatrix>>
    /\ Called("SetScale", <<>>, TRUE)

SetScaleFloat(scale) ==
    /\ m_Scale' = <<scale, scale, scale>>
    /\ m_Dirty' = TRUE
    /\ UNCHANGED <<m_Rotation, m_Translation, m_Mat4, m_NormalMatrix>>
    /\ Called("SetScale", <<>>, TRUE)

SetScaleX(scaleX) ==
    /\ m_Scale' = [m_Scale EXCEPT ![1] = scaleX]
    /\ m_Dirty' = TRUE
    /\ UNCHANGED <<m_Rotation, m_Translation, m_Mat4, m_NormalMatrix>>
    /\ Called("SetScaleX", <<>>, TRUE)

SetScaleY(scaleY) ==
    /\ m_Scale' = [m_Scale EXCEPT ![2] = scaleY]
    /\ m_Dirty' = TRUE
    /\ UNCHANGED <<m_Rotation, m_Translation, m_Mat4, m_NormalMatrix>>
    /\ Called("SetScaleY", <<>>, TRUE)

SetScaleZ(scaleZ) ==
    /\ m_Scale' = [m_Scale EXCEPT ![3] = scaleZ]
    /\ m_Dirty' = TRUE
    /\ UNCHANGED <<m_Rotation, m_Translation, m_Mat4, m_NormalMatrix>>
    /\ Called("SetScaleZ", <<>>, TRUE)

\* AddScale: SetScale(m_Scale + deltaScale)
AddScale(deltaScale) ==
    /\ m_Scale' = VecAdd(m_Scale, deltaScale)
    /\ m_Dirty' = TRUE
    /\ UNCHANGED <<m_Rotation, m_Translation, m_Mat4, m_NormalMatrix>>
    /\ Called("AddScale", <<>>, TRUE)

SetRotationVec(rotation) ==
    /\ m_Rotation' = rotation
    /\ m_Dirty' = TRUE
    /\ UNCHANGED <<m_Scale, m_Translation, m_Mat4, m_NormalMatrix>>
    /\ Called("SetRotation", <<>>, TRUE)

\* SetRotation(const glm::quat&): SetRotation(glm::eulerAngles(quaternion))
SetRotationQuat(quaternion) ==
    /\ m_Rotation' = EulerAngles(quaternion)
    /\ m_Dirty' = TRUE
    /\ UNCHANGED <<m_Scale, m_Translation, m_Mat4, m_NormalMatrix>>
    /\ Called("SetRotation", <<>>, TRUE)

SetRotationX(rotationX) ==
    /\ m_Rotation' = [m_Rotation EXCEPT ![1] = rotationX]
    /\ m_Dirty' = TRUE
    /\ UNCHANGED <<m_Scale, m_Translation, m_Mat4, m_NormalMatrix>>
    /\ Called("SetRotationX", <<>>, TRUE)

SetRotationY(rotationY) ==
    /\ m_Rotation' = [m_Rotation EXCEPT ![2] = rotationY]
    /\ m_Dirty' = TRUE
    /\ UNCHANGED <<m_Scale, m_Translation, m_Mat4, m_NormalMatrix>>
    /\ Called("SetRotationY", <<>>, TRUE)

SetRotationZ(rotationZ) ==
    /\ m_Rotation' = [m_Rotation EXCEPT ![3] = rotationZ]
    /\ m_Dirty' = TRUE
    /\ UNCHANGED <<m_Scale, m_Translation, m_Mat4, m_NormalMatrix>>
    /\ Called("SetRotationZ", <<>>, TRUE)

\* AddRotation: SetRotation(m_Rotation + deltaRotation)
AddRotation(deltaRotation) ==
    /\ m_Rotation' = VecAdd(m_Rotation, deltaRotation)
    /\ m_Dirty' = TRUE
    /\ UNCHANGED <<m_Scale, m_Translation, m_Mat4, m_NormalMatrix>>
    /\ Called("AddRotation", <<>>, TRUE)

SetTranslation(translation) ==
    /\ m_Translation' = translation
    /\ m_Dirty' = TRUE
    /\ UNCHANGED <<m_Scale, m_Rotation, m_Mat4, m_NormalMatrix>>
    /\ Called("SetTranslation", <<>>, TRUE)

SetTranslationX(translationX) ==
    /\ m_Translation' = [m_Translation EXCEPT ![1] = translationX]
    /\ m_Dirty' = TRUE
    /\ UNCHANGED <<m_Scale, m_Rotation, m_Mat4, m_NormalMatrix>>
    /\ Called("SetTranslationX", <<>>, TRUE)

SetTranslationY(translationY) ==
    /\ m_Translation' = [m_Translation EXCEPT ![2] = translationY]
    /\ m_Dirty' = TRUE
    /\ UNCHANGED <<m_Scale, m_Rotation, m_Mat4, m_NormalMatrix>>
    /\ Called("SetTranslationY", <<>>, TRUE)

SetTranslationZNoDirty(translationZ) ==
    /\ m_Translation' = [m_Translation EXCEPT ![3] = translationZ]
    /\ UNCHANGED <<m_Dirty, m_Scale, m_Rotation, m_Mat4, m_NormalMatrix>>
    /\ Called("SetTranslationZ", <<>>, TRUE)

SetTranslationZ(translationZ) ==
    /\ m_Translation' = [m_Translation EXCEPT ![3] = translationZ]
    /\ m_Dirty' = TRUE
    /\ UNCHANGED <<m_Scale, m_Rotation, m_Mat4, m_NormalMatrix>>
    /\ Called("SetTranslationZ", <<>>, TRUE)

\* AddTranslation: SetTranslation(m_Translation + deltaTranslation)
AddTranslation(deltaTranslation) ==
    /\ m_Translation' = VecAdd(m_Translation, deltaTranslation)
    /\ m_Dirty' = TRUE
    /\ UNCHANGED <<m_Scale, m_Rotation, m_Mat4, m_NormalMatrix>>
    /\ Called("AddTranslation", <<>>, TRUE)

RecalculateMatrices ==
    /\ m_Mat4' = ModelMat(m_Scale, m_Rotation, m_Translation)
    /\ m_NormalMatrix' = NormalMat(m_Mat4')

\* a Get that clears the flag and forgets to recompute
RefreshNoRecalc ==
    IF m_Dirty
    THEN m_Dirty' = FALSE /\ UNCHANGED <<m_Mat4, m_NormalMatrix>>
    ELSE UNCHANGED <<m_Dirty, m_Mat4, m_NormalMatrix>>

\* the common body of GetMat4 and GetNormalMatrix:
\* if (m_Dirty) { m_Dirty = false; RecalculateMatrices(); }
Refresh ==
    IF m_Dirty
    THEN m_Dirty' = FALSE /\ RecalculateMatrices
    ELSE UNCHANGED <<m_Dirty, m_Mat4, m_NormalMatrix>>

GetMat4 ==
    /\ Refresh
    /\ UNCHANGED <<m_Scale, m_Rotation, m_Translation>>
    /\ Called("GetMat4", m_Mat4', FALSE)

GetNormalMatrix ==
    /\ Refresh
    /\ UNCHANGED <<m_Scale, m_Rotation, m_Translation>>
    /\ Called("GetNormalMatrix", m_NormalMatrix', FALSE)

TransformNext ==
    \/ \E v \in ScaleVecArgs : SetScaleVec(v)
    \/ \E f \in ScaleArgs : SetScaleFloat(f)
    \/ \E f \in ScaleArgs : SetScaleX(f)
    \/ \E f \in ScaleArgs : SetScaleY(f)
    \/ \E f \in ScaleArgs : SetScaleZ(f)
    \/ \E v \in DeltaArgs : AddScale(v)
    \/ \E v \in RotationVecArgs : SetRotationVec(v)
    \/ \E q \in QuatArgs : SetRotationQuat(q)
    \/ \E f \in AngleArgs : SetRotationX(f)
    \/ \E f \in AngleArgs : SetRotationY(f)
    \/ \E f \in AngleArgs : SetRotationZ(f)
    \/ \E v \in DeltaArgs : AddRotation(v)
    \/ \E v \in TranslationVecArgs : SetTranslation(v)
    \/ \E f \in TranslationArgs : SetTranslationX(f)
    \/ \E f \in TranslationArgs : SetTranslationY(f)
    \/ \E f \in TranslationArgs : SetTranslationZ(f)
    \/ \E v \in DeltaArgs : AddTranslation(v)
    \/ GetMat4
    \/ GetNormalMatrix

Mutators ==
    {"SetScale", "SetScaleX", "SetScaleY", "SetScaleZ", "AddScale",
     "SetRotation", "SetRotationX", "SetRotationY", "SetRotationZ", "AddRotation",
     "SetTranslation", "SetTranslationX", "SetTranslationY", "SetTranslationZ",
     "AddTranslation"}

C2_CleanCacheValid ==
    ~m_Dirty =>
        /\ m_Mat4 = ModelMat(m_Scale, m_Rotation, m_Translation)
        /\ m_NormalMatrix = NormalMat(ModelMat(m_Scale, m_Rotation, m_Translation))

\* C3: every mutator returns with the dirty flag set.
C3_MutatorSetsDirty == tcall.op \in Mutators => m_Dirty

\* a mutator called with the flag clear and a value equal to the old one
C3_Witness ==
    /\ tcall.op = "SetTranslationZ"
    /\ ~tcall.dirtyBefore
    /\ tcall.same
    /\ m_Dirty

-----------------------------------------------------------------------------
(* The geometry pass: MeshComponent::m_Enabled and                          *)
(* VK_RenderSystemPbrNoMap::RenderEntities                                  *)

Guybrush == 0..(HornSprites - 1)

RECURSIVE Ascending(_)
\* the elements of a set of numbers as a sequence, smallest first
Ascending(S) ==
    IF S = {} THEN <<>>
    ELSE LET m == CHOOSE x \in S : \A y \in S : x <= y
         IN  <<m>> \o Ascending(S \ {m})

RECURSIVE Filter(_, _)
\* the entries of a sequence that are in a set, in the order of the sequence
Filter(seq, S) ==
    IF seq = <<>> THEN <<>>
    ELSE (IF Head(seq) \in S THEN <<Head(seq)>> ELSE <<>>) \o Filter(Tail(seq), S)

Range(seq) == {seq[i] : i \in DOMAIN seq}

RECURSIVE Reverse(_)
Reverse(seq) == IF seq = <<>> THEN <<>> ELSE Reverse(Tail(seq)) \o <<Head(seq)>>

\* the order in which a view is iterated: from the newest entity to the oldest
ViewOrder(S) == Reverse(Ascending(S))

MeshInit ==
    /\ m_Enabled \in [Guybrush -> BOOLEAN]
    /\ previousFrame = 0
    /\ pbrView \in SUBSET Guybrush
    /\ drawn = <<>>
    /\ skipped = {}
    /\ meshCall = "none"
    /\ binds = <<>>
    /\ pushed = <<>>

MeshIdle ==
    /\ m_Enabled = [i \in Guybrush |-> i = 0]
    /\ previousFrame = 0
    /\ pbrView = Guybrush
    /\ drawn = <<>>
    /\ skipped = {}
    /\ meshCall = "none"
    /\ binds = <<>>
    /\ pushed = <<>>

\* MainScene::OnUpdate, lines 232-247: the horn animation shows the sprite of the
\* current frame and hides the one of the previous frame
HornAnimationBlock(isNewFrame, currentFrame) ==
    IF isNewFrame
    THEN /\ m_Enabled' = [[m_Enabled EXCEPT ![previousFrame] = FALSE]
                             EXCEPT ![currentFrame] = TRUE]
         /\ UNCHANGED previousFrame
    ELSE /\ previousFrame' = currentFrame
         /\ UNCHANGED m_Enabled

HornAnimation ==
    /\ \E isNewFrame \in BOOLEAN, currentFrame \in Guybrush :
           HornAnimationBlock(isNewFrame, currentFrame)
    /\ meshCall' = "HornAnimation"
    /\ UNCHANGED <<pbrView, drawn, skipped, binds, pushed>>
    /\ MeshRest

\* a geometry pass that draws every entity of its view
RenderedAll == ViewOrder(pbrView)

\* VK_RenderSystemPbrNoMap::RenderEntities, lines 113-124: the entities of the
\* view that get a Bind and a DrawNoMap, in iteration order
Rendered == Filter(ViewOrder(pbrView), {e \in Guybrush : m_Enabled[e]})

RenderEntities ==
    /\ binds' = <<"m_Pipeline">>
    /\ drawn' = Rendered
    /\ pushed' = Rendered
    /\ skipped' = skipped \cup (pbrView \ Range(Rendered))
    /\ meshCall' = "RenderEntities"
    /\ UNCHANGED <<m_Enabled, previousFrame, pbrView>>
    /\ MeshRest

\* VK_RenderSystemShadow::RenderEntities: view<MeshComponent, TransformComponent>,
\* which every entity of m_Guybrush is in
meshView == Guybrush

\* lines 116-123: m_Pipeline0 or m_Pipeline1 is bound, by the light's m_RenderPass;
\* lines 125-148: push constants for every entity of the view, Bind and DrawShadow
\* for the enabled ones
ShadowRenderEntities ==
    /\ \E m_RenderPass \in {0, 1} :
           binds' = IF m_RenderPass = 0 THEN <<"m_Pipeline0">> ELSE <<"m_Pipeline1">>
    /\ pushed' = ViewOrder(meshView)
    /\ drawn' = Filter(ViewOrder(meshView), {e \in Guybrush : m_Enabled[e]})
    /\ meshCall' = "ShadowRenderEntities"
    /\ UNCHANGED <<m_Enabled, previousFrame, pbrView, skipped>>
    /\ MeshRest

MeshNext == HornAnimation \/ RenderEntities \/ ShadowRenderEntities

\* C11: a render system's entry point binds one pipeline once and, of the
\* entities of its view, pushes per-draw constants and draws exactly the ones
\* whose mesh is enabled; nothing is pushed or drawn for a disabled mesh.
C11_OneBindPushAndDrawEnabledOnly ==
    meshCall \in {"RenderEntities", "ShadowRenderEntities"} =>
        /\ Len(binds) = 1
        /\ \A e \in Range(drawn) : m_Enabled[e]
        /\ \A e \in Range(pushed) : m_Enabled[e]
        /\ Range(pushed) = Range(drawn)

\* C10: RenderEntities draws an entity of its view if and only if the entity's
\* mesh is enabled when it is called, whatever the flag was at earlier calls.
C10_DrawnIffEnabled ==
    meshCall = "RenderEntities" =>
        \A e \in Guybrush : (e \in Range(drawn)) <=> (e \in pbrView /\ m_Enabled[e])

\* an entity left out by an earlier RenderEntities is drawn by this one, next to
\* an entity of the view that is left out now
C10_Witness ==
    /\ meshCall = "RenderEntities"
    /\ \E e \in skipped : e \in Range(drawn)
    /\ \E e \in pbrView : e \notin Range(drawn)

-----------------------------------------------------------------------------
(* One frame: Lucre::OnUpdate, MainScene::OnUpdate, BeachScene::OnUpdate     *)
(* The timestep is counted in units of (pi/2)/0.3 = 5.236 seconds, the time  *)
(* RotateLights needs for a quarter turn; scales are in thousandths.         *)

Timesteps == {0, 1}
IntensityArgs == {1, 5}

\* MainScene::OnUpdate with the lighting pass ahead of the geometry pass
MainSceneOnUpdateLightingFirst ==
    <<"HornAnimation", "KeyboardInput", "BeginFrame", "SubmitShadows", "Renderpass3D",
      "ApplyDebugSettings", "RotateLights", "AnimateVulcan", "SimulatePhysics",
      "UpdateBananas", "EmitVolcanoSmoke", "VolcanoSmokeOnUpdate", "LightingPass",
      "NextSubpass", "Submit", "NextSubpass", "TransparencyPass", "GUIRenderpass">>

\* MainScene::OnUpdate in statement order
MainSceneOnUpdate ==
    <<"HornAnimation", "KeyboardInput", "BeginFrame", "SubmitShadows", "Renderpass3D",
      "ApplyDebugSettings", "RotateLights", "AnimateVulcan", "SimulatePhysics",
      "UpdateBananas", "EmitVolcanoSmoke", "VolcanoSmokeOnUpdate", "Submit",
      "NextSubpass", "LightingPass", "NextSubpass", "TransparencyPass", "GUIRenderpass">>

\* BeachScene::OnUpdate in statement order
BeachSceneOnUpdate ==
    <<"KeyboardInput", "AnimateHero", "SetLightView", "SetLightView",
      "SetDirectionalLight", "SetDirectionalLight", "BeginFrame", "ShowDebugShadowMap",
      "SubmitShadows", "Renderpass3D", "RotateLights", "Submit", "NextSubpass",
      "LightingPass", "NextSubpass", "TransparencyPass", "GUIRenderpass">>

\* Lucre::OnUpdate in statement order, the scene's OnUpdate inlined
LucreOnUpdate(scene) ==
    <<"GameStateOnUpdate">>
    \o (IF scene = "main" THEN MainSceneOnUpdate ELSE BeachSceneOnUpdate)
    \o <<"Health", "Indent", "ControllerIconOnUpdate", "Submit2D", "UIOnUpdate", "EndScene">>

Program == LucreOnUpdate(m_CurrentScene)

Stmt == IF pc = 0 THEN "none" ELSE Program[pc]

Advance == pc' = IF pc = Len(Program) THEN 0 ELSE pc + 1

\* the calls on m_Renderer
RendererCalls ==
    {"BeginFrame", "ShowDebugShadowMap", "SubmitShadows", "Renderpass3D", "Submit",
     "NextSubpass", "LightingPass", "TransparencyPass", "GUIRenderpass", "Submit2D",
     "EndScene"}

\* statements that change nothing the frame model keeps (the mesh flags the horn
\* animation sets are the geometry-pass model's)
OtherStatements ==
    {"GameStateOnUpdate", "HornAnimation", "SetLightView", "SetDirectionalLight", "AnimateVulcan",
     "EmitVolcanoSmoke", "VolcanoSmokeOnUpdate", "Health", "Indent",
     "ControllerIconOnUpdate"}

RegAfterStart(scene, group1) ==
    [camera |-> 0,
     lightPos |-> <<1, 0, 0>>,
     lightGroup1 |-> group1,
     lightIntensity |-> 5,
     heroScaleX |-> 1000,
     bananaY |-> IF scene = "main" THEN MaxHeight ELSE 0]

\* the state after Lucre::Start and the scene's Load and Start.  BeachScene
\* attaches Group2 to every light it creates and Group1 to none.
FrameInit ==
    /\ m_CurrentScene \in {"main", "beach"}
    /\ m_GUIisRunning = FALSE
    /\ pc = 0
    /\ timestep = 0
    /\ \E group1 \in BOOLEAN :
           /\ m_CurrentScene = "beach" => ~group1
           /\ reg = RegAfterStart(m_CurrentScene, group1)
    /\ heroStatics = [deltaX |-> 500, deformX |-> 200]
    /\ bananaBody = IF m_CurrentScene = "main" THEN MaxHeight ELSE 0
    /\ frameLog = <<>>

FrameIdle ==
    /\ m_CurrentScene = "main"
    /\ m_GUIisRunning = FALSE
    /\ pc = 0
    /\ timestep = 0
    /\ reg = RegAfterStart("main", FALSE)
    /\ heroStatics = [deltaX |-> 500, deformX |-> 200]
    /\ bananaBody = MaxHeight
    /\ frameLog = <<>>

\* Lucre::Cancel, between two frames (the game state is SPLASH or not)
Cancel ==
    /\ pc = 0
    /\ \E splash \in BOOLEAN :
           m_GUIisRunning' = IF splash THEN m_GUIisRunning ELSE ~m_GUIisRunning
    /\ UNCHANGED <<m_CurrentScene, pc, timestep, reg, heroStatics, bananaBody, frameLog>>
    /\ FrameRest

\* engine.cpp: application->OnUpdate(engine->GetTimestep())
BeginOnUpdate ==
    /\ pc = 0
    /\ pc' = 1
    /\ timestep' \in Timesteps
    /\ frameLog' = <<>>
    /\ UNCHANGED <<m_CurrentScene, m_GUIisRunning, reg, heroStatics, bananaBody>>
    /\ FrameRest

\* a call on m_Renderer: it reads the component values as they are now
RendererCall ==
    /\ Stmt \in RendererCalls
    /\ frameLog' = Append(frameLog, [call |-> Stmt, read |-> reg])
    /\ Advance
    /\ UNCHANGED <<m_CurrentScene, m_GUIisRunning, timestep, reg, heroStatics, bananaBody>>
    /\ FrameRest

\* Lucre::OnUpdate, lines 97-100: if (m_GUIisRunning) m_UI->OnUpdate(timestep)
UIOnUpdate ==
    /\ Stmt = "UIOnUpdate"
    /\ frameLog' = IF m_GUIisRunning
                   THEN Append(frameLog, [call |-> "UIOnUpdate", read |-> reg])
                   ELSE frameLog
    /\ Advance
    /\ UNCHANGED <<m_CurrentScene, m_GUIisRunning, timestep, reg, heroStatics, bananaBody>>
    /\ FrameRest

OtherStatement ==
    /\ Stmt \in OtherStatements
    /\ Advance
    /\ UNCHANGED <<m_CurrentScene, m_GUIisRunning, timestep, reg, heroStatics, bananaBody,
                   frameLog>>
    /\ FrameRest

\* if (KeyboardInputIsReleased()) MoveInPlaneXZ(timestep, cameraTransform)
KeyboardInput ==
    /\ Stmt = "KeyboardInput"
    /\ \E released \in BOOLEAN, dx \in {-1, 0, 1} :
           /\ reg.camera + dx \in 0..MaxCam
           /\ reg' = IF released THEN [reg EXCEPT !.camera = @ + dx] ELSE reg
    /\ Advance
    /\ UNCHANGED <<m_CurrentScene, m_GUIisRunning, timestep, heroStatics, bananaBody, frameLog>>
    /\ FrameRest

\* BeachScene::AnimateHero
AnimateHero ==
    /\ Stmt = "AnimateHero"
    /\ LET deform == IF heroStatics.deltaX > 550 THEN -200
                     ELSE IF heroStatics.deltaX < 450 THEN 200
                     ELSE heroStatics.deformX
           step == (200 * timestep * 5236) \div 1000
           delta == heroStatics.deltaX + (IF deform < 0 THEN -step ELSE step)
       IN  /\ heroStatics' = [deltaX |-> delta, deformX |-> deform]
           /\ reg' = [reg EXCEPT !.heroScaleX = delta]
    /\ Advance
    /\ UNCHANGED <<m_CurrentScene, m_GUIisRunning, timestep, bananaBody, frameLog>>
    /\ FrameRest

\* MainScene::ApplyDebugSettings
ApplyDebugSettings ==
    /\ Stmt = "ApplyDebugSettings"
    /\ \E usePointLightIntensity \in BOOLEAN, pointLightIntensity \in IntensityArgs :
           reg' = IF usePointLightIntensity
                  THEN [reg EXCEPT !.lightIntensity = pointLightIntensity]
                  ELSE reg
    /\ Advance
    /\ UNCHANGED <<m_CurrentScene, m_GUIisRunning, timestep, heroStatics, bananaBody, frameLog>>
    /\ FrameRest

\* glm::vec3(rotateLight * glm::vec4(translation, 1.f)), where rotateLight is
\* glm::rotate(glm::mat4(1.f), time, {0.f, -1.f, 0.f})
RotatedAboutMinusY(v, quarterTurns) ==
    LET M == RotY(-quarterTurns)
    IN  <<M[1][1] * v[1] + M[1][2] * v[2] + M[1][3] * v[3] + M[1][4],
          M[2][1] * v[1] + M[2][2] * v[2] + M[2][3] * v[3] + M[2][4],
          M[3][1] * v[1] + M[3][2] * v[2] + M[3][3] * v[3] + M[3][4]>>

\* BeachScene::RotateLights (and MainScene::RotateLights): every light of
\* view<PointLightComponent, TransformComponent, Group1> is turned about the y axis
RotateLights ==
    /\ Stmt = "RotateLights"
    /\ reg' = IF reg.lightGroup1
              THEN [reg EXCEPT !.lightPos = RotatedAboutMinusY(@, timestep)]
              ELSE reg
    /\ Advance
    /\ UNCHANGED <<m_CurrentScene, m_GUIisRunning, timestep, heroStatics, bananaBody, frameLog>>
    /\ FrameRest

\* MainScene::SimulatePhysics: the physics world is stepped by the timestep
SimulatePhysics ==
    /\ Stmt = "SimulatePhysics"
    /\ bananaBody' = IF bananaBody - timestep < 0 THEN 0 ELSE bananaBody - timestep
    /\ Advance
    /\ UNCHANGED <<m_CurrentScene, m_GUIisRunning, timestep, reg, heroStatics, frameLog>>
    /\ FrameRest

\* MainScene::UpdateBananas: the body's position is copied into the TransformComponent
UpdateBananas ==
    /\ Stmt = "UpdateBananas"
    /\ reg' = [reg EXCEPT !.bananaY = bananaBody]
    /\ Advance
    /\ UNCHANGED <<m_CurrentScene, m_GUIisRunning, timestep, heroStatics, bananaBody, frameLog>>
    /\ FrameRest

FrameNext ==
    \/ Cancel
    \/ BeginOnUpdate
    \/ RendererCall
    \/ UIOnUpdate
    \/ OtherStatement
    \/ KeyboardInput
    \/ AnimateHero
    \/ ApplyDebugSettings
    \/ RotateLights
    \/ SimulatePhysics
    \/ UpdateBananas

\* C4: the passes of a frame are issued in the order shadow pass, geometry pass
\* (Submit), NextSubpass, lighting pass, NextSubpass, transparency pass, GUI render
\* pass, and then the 2D submission, the GUI's update and EndScene; at every
\* moment of a frame the passes issued so far are the beginning of that order,
\* and at the end of the frame they are the whole of it.
C4_PassOrder ==
    LET passCalls == {"SubmitShadows", "Submit", "NextSubpass", "LightingPass",
                      "TransparencyPass", "GUIRenderpass", "Submit2D", "UIOnUpdate",
                      "EndScene"}
        issued == SelectSeq(frameLog, LAMBDA e : e.call \in passCalls)
        order(gui) == <<"SubmitShadows", "Submit", "NextSubpass", "LightingPass",
                        "NextSubpass", "TransparencyPass", "GUIRenderpass", "Submit2D">>
                      \o (IF gui THEN <<"UIOnUpdate">> ELSE <<>>) \o <<"EndScene">>
    IN  \E gui \in BOOLEAN :
            /\ Len(issued) <= Len(order(gui))
            /\ \A i \in 1..Len(issued) : issued[i].call = order(gui)[i]
            /\ (pc = 0 /\ frameLog # <<>>) => Len(issued) = Len(order(gui))

\* a whole frame of the main scene with the GUI running
C4_Witness ==
    /\ pc = 0
    /\ m_CurrentScene = "main"
    /\ \E i \in DOMAIN frameLog : frameLog[i].call = "UIOnUpdate"
    /\ frameLog[Len(frameLog)].call = "EndScene"

\* C5: all the passes of one frame, the shadow submission included, read the
\* same component values: no component changes after the first submission.
C5_PassesReadSameValues ==
    LET passCalls == {"SubmitShadows", "Submit", "LightingPass", "TransparencyPass"}
    IN  \A i, j \in DOMAIN frameLog :
            (frameLog[i].call \in passCalls /\ frameLog[j].call \in passCalls)
                => frameLog[i].read = frameLog[j].read

-----------------------------------------------------------------------------
(* VK_LightSystem: Update and Render                                        *)

\* one entity more than the uniform buffer has room for
LightEntities == 1..(MAX_LIGHTS + 1)

\* where lights and camera can be
Positions == {<<0, 0, 0>>, <<1, 0, 0>>, <<2, 0, 0>>}

NoLight == <<>>

\* registry.view<PointLightComponent, TransformComponent>()
PointLightView == {e \in LightEntities : lightTranslation[e] # NoLight}

\* lines 153-156: glm::dot(distanceVec, distanceVec) of camera - light
DistanceToCam(camera, light) ==
    LET distanceVec == <<camera[1] - light[1], camera[2] - light[2], camera[3] - light[3]>>
    IN  Dot(distanceVec, distanceVec)

\* std::map::insert: an element whose key is already there is not inserted
MapInsert(map, key, value) ==
    IF key \in DOMAIN map THEN map
    ELSE [k \in DOMAIN map \cup {key} |-> IF k = key THEN value ELSE map[k]]

EmptyMap == [k \in {} |-> 0]

\* begin() .. end(): the entities of the map from the smallest key to the largest
ForwardIteration(map) == [i \in 1..Cardinality(DOMAIN map) |->
    map[Ascending(DOMAIN map)[i]]]

\* rbegin() .. rend(): the entities of the map from the largest key to the smallest
ReverseIteration(map) == [i \in 1..Cardinality(DOMAIN map) |->
    map[Reverse(Ascending(DOMAIN map))[i]]]

\* ASSERT(x): the process ends when x is false
AssertPasses(x) == x

\* a bound that lets one light too many through
IndexInRangeOffByOne(lightIndex) == lightIndex <= MAX_LIGHTS

\* line 151: the condition of the ASSERT
IndexInRange(lightIndex) == lightIndex < MAX_LIGHTS

\* a map that keeps the entries of the frame before
NotCleared(map) == map

\* line 143: m_SortedLight.clear()
Cleared(map) == EmptyMap

RECURSIVE InsertLights(_, _, _)
\* lines 146-161: the first loop of Update over the entities of the view not
\* yet visited; lightIndex entities were visited before.  The result is the map
\* and whether every ASSERT(lightIndex < MAX_LIGHTS) has passed.
InsertLights(entities, lightIndex, map) ==
    IF entities = <<>> THEN [map |-> map, ok |-> TRUE]
    ELSE IF ~AssertPasses(IndexInRange(lightIndex)) THEN [map |-> map, ok |-> FALSE]
    ELSE InsertLights(Tail(entities), lightIndex + 1,
                      MapInsert(map, DistanceToCam(cameraPosition,
                                                   lightTranslation[Head(entities)]),
                                Head(entities)))

\* lines 163-178: the second loop writes ubo.m_PointLights[lightIndex] for the
\* entities of the map, largest key first, and then the number of lights
CopyToUbo(map) ==
    LET order == ReverseIteration(map)
    IN  [m_PointLights |->
             [i \in DOMAIN ubo.m_PointLights \cup (0..(Len(order) - 1)) |->
                 IF i < Len(order) THEN lightTranslation[order[i + 1]]
                 ELSE ubo.m_PointLights[i]],
         m_NumberOfActivePointLights |-> Len(order)]

LightInit ==
    /\ lightTranslation \in [LightEntities -> Positions \cup {NoLight}]
    /\ cameraPosition \in Positions
    /\ m_SortedLight = EmptyMap
    /\ ubo = [m_PointLights |-> [i \in 0..(MAX_LIGHTS - 1) |-> <<0, 0, 0>>],
              m_NumberOfActivePointLights |-> 0]
    /\ uboEntities = <<>>
    /\ updateCamera = cameraPosition
    /\ renderDraws = <<>>
    /\ terminated = FALSE
    /\ changes = 0
    /\ lightCall = "none"

LightIdle ==
    /\ lightTranslation = [e \in LightEntities |-> NoLight]
    /\ cameraPosition = <<0, 0, 0>>
    /\ m_SortedLight = EmptyMap
    /\ ubo = [m_PointLights |-> [i \in 0..(MAX_LIGHTS - 1) |-> <<0, 0, 0>>],
              m_NumberOfActivePointLights |-> 0]
    /\ uboEntities = <<>>
    /\ updateCamera = cameraPosition
    /\ renderDraws = <<>>
    /\ terminated = FALSE
    /\ changes = 0
    /\ lightCall = "none"

\* VK_LightSystem::Update, the point-light block (lines 143-178)
Update ==
    /\ ~terminated
    /\ LET first == InsertLights(ViewOrder(PointLightView), 0, Cleared(m_SortedLight))
       IN  /\ m_SortedLight' = first.map
           /\ terminated' = ~first.ok
           /\ ubo' = IF first.ok THEN CopyToUbo(first.map) ELSE ubo
           /\ uboEntities' = IF first.ok THEN ReverseIteration(first.map) ELSE uboEntities
    /\ updateCamera' = cameraPosition
    /\ changes' = 0
    /\ lightCall' = "Update"
    /\ UNCHANGED <<lightTranslation, cameraPosition, renderDraws>>
    /\ LightRest

\* VK_LightSystem::Render (lines 113-136): one push and one draw per entity of
\* m_SortedLight, largest key first
Render ==
    /\ ~terminated
    /\ lightCall \in {"Update", "Render"}
    /\ renderDraws' = ReverseIteration(m_SortedLight)
    /\ lightCall' = "Render"
    /\ UNCHANGED <<lightTranslation, cameraPosition, m_SortedLight, ubo, uboEntities,
                   updateCamera, terminated, changes>>
    /\ LightRest

\* a change between two frames
Changed(name) ==
    /\ ~terminated
    /\ lightCall # "Update"
    /\ changes < MaxChanges
    /\ changes' = changes + 1
    /\ lightCall' = name
    /\ UNCHANGED <<m_SortedLight, ubo, uboEntities, updateCamera, renderDraws, terminated>>
    /\ LightRest

\* Scene::CreatePointLight and emplace<TransformComponent> (MainScene::Start)
CreatePointLight(entity, translation) ==
    /\ lightTranslation[entity] = NoLight
    /\ lightTranslation' = [lightTranslation EXCEPT ![entity] = translation]
    /\ UNCHANGED cameraPosition
    /\ Changed("CreatePointLight")

\* a light leaves the registry
DestroyLight(entity) ==
    /\ lightTranslation[entity] # NoLight
    /\ lightTranslation' = [lightTranslation EXCEPT ![entity] = NoLight]
    /\ UNCHANGED cameraPosition
    /\ Changed("DestroyLight")

\* TransformComponent::SetTranslation on a light (RotateLights)
MoveLight(entity, translation) ==
    /\ lightTranslation[entity] \notin {NoLight, translation}
    /\ lightTranslation' = [lightTranslation EXCEPT ![entity] = translation]
    /\ UNCHANGED cameraPosition
    /\ Changed("MoveLight")

\* the camera moves (CameraController::SetViewYXZ)
MoveCamera(position) ==
    /\ position # cameraPosition
    /\ cameraPosition' = position
    /\ UNCHANGED lightTranslation
    /\ Changed("MoveCamera")

LightNext ==
    \/ Update
    \/ Render
    \/ \E e \in LightEntities, t \in Positions : CreatePointLight(e, t)
    \/ \E e \in LightEntities : DestroyLight(e)
    \/ \E e \in LightEntities, t \in Positions : MoveLight(e, t)
    \/ \E c \in Positions : MoveCamera(c)

\* C6: after Update the lights in ubo.m_PointLights[0..n-1] are in strictly
\* descending order of squared distance to the camera, and Render draws the
\* entities in the order in which Update stored them.
C6_FarthestFirst ==
    /\ (lightCall = "Update" /\ ~terminated) =>
           \A i, j \in 0..(ubo.m_NumberOfActivePointLights - 1) :
               i < j => DistanceToCam(updateCamera, ubo.m_PointLights[i])
                            > DistanceToCam(updateCamera, ubo.m_PointLights[j])
    /\ lightCall = "Render" => renderDraws = uboEntities

\* Render after an Update of lights at different distances, created out of order
C6_Witness ==
    /\ lightCall = "Render"
    /\ Len(renderDraws) = MAX_LIGHTS
    /\ renderDraws[1] < renderDraws[2]
    /\ ubo.m_NumberOfActivePointLights = MAX_LIGHTS

\* C7: after Update the number of active point lights is the number of entities
\* with a PointLightComponent and a TransformComponent, lights at equal distance
\* included.
C7_CountsEveryLight ==
    (lightCall = "Update" /\ ~terminated) =>
        ubo.m_NumberOfActivePointLights = Cardinality(PointLightView)

\* C8: after Update the sorted set holds only entities that are point lights
\* now, under the squared distance to the camera of this frame.
C8_RebuiltFromScratch ==
    lightCall = "Update" =>
        \A key \in DOMAIN m_SortedLight :
            /\ m_SortedLight[key] \in PointLightView
            /\ key = DistanceToCam(cameraPosition, lightTranslation[m_SortedLight[key]])

\* an Update after a light drawn in the frame before has left the registry
C8_Witness ==
    /\ lightCall = "Update"
    /\ m_SortedLight # EmptyMap
    /\ \E e \in Range(renderDraws) : e \notin PointLightView

\* C9: no element of ubo.m_PointLights at index MAX_LIGHTS or above is ever
\* written and the number of active point lights never exceeds MAX_LIGHTS.
C9_WithinMaxLights ==
    /\ DOMAIN ubo.m_PointLights = 0..(MAX_LIGHTS - 1)
    /\ ubo.m_NumberOfActivePointLights <= MAX_LIGHTS

\* Update with MAX_LIGHTS + 1 lights, all at different distances: the ASSERT fails
C9_Witness ==
    /\ terminated
    /\ Cardinality(PointLightView) = MAX_LIGHTS + 1
    /\ Cardinality({DistanceToCam(cameraPosition, lightTranslation[e]) :
                        e \in PointLightView}) = MAX_LIGHTS + 1

-----------------------------------------------------------------------------
(* ScriptComponents: LoadScripts, StartScripts, Engine::RunScripts           *)

Scenes == {"main", "beach"}

ScriptEntities == 1..MaxScripts

\* entt::null
Null == 0

NoCalls == [e \in ScriptEntities |-> 0]

\* what the scene files hold: the entities with a ScriptComponent, and the duck
\* among them if the dictionary knows it
ScriptInit ==
    /\ scriptScene = "main"
    /\ sceneState = [s \in Scenes |-> "constructed"]
    /\ scriptView \in [Scenes -> SUBSET ScriptEntities]
    /\ duck \in [Scenes -> ScriptEntities \cup {Null}]
    /\ \A s \in Scenes : duck[s] # Null => duck[s] \in scriptView[s]
    /\ m_Script = [s \in Scenes |-> [e \in ScriptEntities |-> FALSE]]
    /\ startCalls = [s \in Scenes |-> NoCalls]
    /\ onUpdateCalls = NoCalls
    /\ log = <<>>
    /\ warned = NoCalls
    /\ switches = 0
    /\ scriptCall = "none"

ScriptIdle ==
    /\ scriptScene = "main"
    /\ sceneState = [s \in Scenes |-> "constructed"]
    /\ scriptView = [s \in Scenes |-> {}]
    /\ duck = [s \in Scenes |-> Null]
    /\ m_Script = [s \in Scenes |-> [e \in ScriptEntities |-> FALSE]]
    /\ startCalls = [s \in Scenes |-> NoCalls]
    /\ onUpdateCalls = NoCalls
    /\ log = <<>>
    /\ warned = NoCalls
    /\ switches = 0
    /\ scriptCall = "none"

\* the body MainScene::LoadScripts and BeachScene::StartScripts share:
\* if (duck != entt::null) duckScriptComponent.m_Script = make_shared<DuckScript>
AttachDuckScript(scene) ==
    IF duck[scene] # Null
    THEN [m_Script EXCEPT ![scene][duck[scene]] = TRUE]
    ELSE m_Script

\* MainScene::LoadScripts attaches the duck's script, BeachScene::LoadScripts is empty
LoadScripts(scene) ==
    IF scene = "main" THEN AttachDuckScript(scene) ELSE m_Script

\* MainScene::Load, BeachScene::Load: ... LoadModels(); LoadScripts();
Load(scene) ==
    /\ sceneState[scene] = "constructed"
    /\ sceneState' = [sceneState EXCEPT ![scene] = "loaded"]
    /\ m_Script' = LoadScripts(scene)
    /\ scriptCall' = "Load"
    /\ UNCHANGED <<scriptScene, scriptView, duck, startCalls, onUpdateCalls, log, warned,
                   switches>>
    /\ ScriptRest

\* MainScene::StartScripts calls Start() on every script of the view;
\* BeachScene::StartScripts attaches the duck's script
StartScripts(scene) ==
    IF scene = "main"
    THEN [m_Script |-> m_Script,
          startCalls |-> [startCalls EXCEPT ![scene] =
              [e \in ScriptEntities |->
                  IF e \in scriptView[scene] /\ m_Script[scene][e] THEN @[e] + 1 ELSE @[e]]]]
    ELSE [m_Script |-> AttachDuckScript(scene), startCalls |-> startCalls]

\* MainScene::Start, BeachScene::Start: m_IsRunning = true; ... StartScripts(); ...
Start(scene) ==
    /\ sceneState[scene] = "loaded"
    /\ sceneState' = [sceneState EXCEPT ![scene] = "started"]
    /\ m_Script' = StartScripts(scene).m_Script
    /\ startCalls' = StartScripts(scene).startCalls
    /\ scriptCall' = "Start"
    /\ UNCHANGED <<scriptScene, scriptView, duck, onUpdateCalls, log, warned, switches>>
    /\ ScriptRest

RECURSIVE RunScriptsLoop(_, _, _, _)
\* Engine::RunScripts, lines 342-363: the loop over the entities of the view not
\* yet visited; the return in the search of log ends the whole function
RunScriptsLoop(entities, lg, updates, warnings) ==
    IF entities = <<>>
    THEN [log |-> lg, onUpdateCalls |-> updates, warned |-> warnings]
    ELSE LET entity == Head(entities)
         IN  IF m_Script[scriptScene][entity]
             THEN RunScriptsLoop(Tail(entities), lg,
                                 [updates EXCEPT ![entity] = @ + 1], warnings)
             ELSE IF \E i \in DOMAIN lg : lg[i] = entity
                  THEN [log |-> lg, onUpdateCalls |-> updates, warned |-> warnings]
                  ELSE RunScriptsLoop(Tail(entities), Append(lg, entity), updates,
                                      [warnings EXCEPT ![entity] = @ + 1])

\* engine.cpp line 70: engine->RunScripts(application), once per frame
RunScripts ==
    /\ sceneState[scriptScene] = "started"
    /\ LET result == RunScriptsLoop(ViewOrder(scriptView[scriptScene]), log, NoCalls, warned)
       IN  /\ log' = result.log
           /\ onUpdateCalls' = result.onUpdateCalls
           /\ warned' = result.warned
    /\ scriptCall' = "RunScripts"
    /\ UNCHANGED <<scriptScene, sceneState, scriptView, duck, m_Script, startCalls, switches>>
    /\ ScriptRest

\* Lucre::OnAppEvent, SceneChangedEvent: m_GameState.SetState(event.GetScene())
SceneChanged(scene) ==
    /\ scene # scriptScene
    /\ switches < MaxSwitches
    /\ switches' = switches + 1
    /\ scriptScene' = scene
    /\ scriptCall' = "SceneChanged"
    /\ UNCHANGED <<sceneState, scriptView, duck, m_Script, startCalls, onUpdateCalls, log,
                   warned>>
    /\ ScriptRest

ScriptNext ==
    \/ \E scene \in Scenes : Load(scene)
    \/ \E scene \in Scenes : Start(scene)
    \/ RunScripts
    \/ \E scene \in Scenes : SceneChanged(scene)

\* C13: Start has called Start() once on every attached script of the scene, and
\* no script gets an OnUpdate from RunScripts before its Start().
C13_ScriptsStartedBeforeUpdate ==
    /\ \A s \in Scenes : sceneState[s] = "started" =>
           \A e \in scriptView[s] : m_Script[s][e] => startCalls[s][e] = 1
    /\ scriptCall = "RunScripts" =>
           \A e \in ScriptEntities : onUpdateCalls[e] > 0 => startCalls[scriptScene][e] > 0

\* C14: in every call of RunScripts each entity of the view with a script gets
\* exactly one OnUpdate.
C14_EveryScriptUpdated ==
    scriptCall = "RunScripts" =>
        \A e \in scriptView[scriptScene] :
            m_Script[scriptScene][e] => onUpdateCalls[e] = 1

\* C15: the warning is logged at most once per entity, and from some frame on
\* every entity of the running scene's view that has no script has been warned
\* about.
C15_WarnedOnceAndEventually ==
    /\ [](\A e \in ScriptEntities : warned[e] <= 1)
    /\ <>[](\A e \in ScriptEntities :
               (/\ sceneState[scriptScene] = "started"
                /\ e \in scriptView[scriptScene]
                /\ ~m_Script[scriptScene][e]) => warned[e] = 1)

-----------------------------------------------------------------------------
(* The engine: the main loop, Engine::OnUpdate, Engine::OnEvent, Lucre::OnEvent *)

EventTypes ==
    {"WindowResizeEvent", "KeyPressedEvent", "MouseMovedEvent",
     "ControllerButtonPressedEvent", "MouseButtonPressedEvent"}

Layers == 1..MaxLayers

\* an event, with what each layer's OnEvent will do with it
Events ==
    [type : EventTypes, width : {0, 1}, height : {0, 1}, layerHandles : [Layers -> BOOLEAN]]

NoEvent == [type |-> "none"]

\* the state after Engine::Start and Lucre::Start
EngineInit ==
    /\ m_Running = TRUE
    /\ m_Paused = FALSE
    /\ loopPc = "top"
    /\ polled = 0
    /\ loopCalls = <<>>
    /\ pausedAtTest = FALSE
    /\ lastResize = "none"
    /\ windowOK = TRUE
    /\ m_LayerStack \in {<<>>, <<1>>, <<1, 2>>, <<2, 1>>}
    /\ lastEvent = NoEvent
    /\ receivers = <<>>

EngineIdle ==
    /\ m_Running = TRUE
    /\ m_Paused = FALSE
    /\ loopPc = "top"
    /\ polled = 0
    /\ loopCalls = <<>>
    /\ pausedAtTest = FALSE
    /\ lastResize = "none"
    /\ windowOK = TRUE
    /\ m_LayerStack = <<>>
    /\ lastEvent = NoEvent
    /\ receivers = <<>>

\* EventDispatcher::Dispatch<T>(handler): the handler is called when the event is
\* of type T, and what it returns marks the event handled
Dispatch(event, type, handled, result) ==
    IF event.type = type THEN result ELSE handled

\* a resize handler that pauses only when both dimensions are zero
ResizePausesBothZero(event) == (event.width = 0) /\ (event.height = 0)

\* core.cpp line 209: (event.GetWidth() == 0) || (event.GetHeight() == 0)
ResizePauses(event) == (event.width = 0) \/ (event.height = 0)

\* the layers from the first pushed to the last
FirstPushedFirst(stack) == stack

\* core.cpp lines 247-249: from m_LayerStack.end() down to m_LayerStack.begin()
LayerOrder(stack) == Reverse(stack)

RECURSIVE OfferToLayers(_, _)
\* core.cpp lines 247-253: the layers yet to come get the event until one of
\* them marks it handled; the result is the layers that got it
OfferToLayers(layers, event) ==
    IF layers = <<>> THEN <<>>
    ELSE IF event.layerHandles[Head(layers)] THEN <<Head(layers)>>
    ELSE <<Head(layers)>> \o OfferToLayers(Tail(layers), event)

\* Lucre::OnEvent: the dispatchers for ControllerButtonPressedEvent and
\* KeyPressedEvent return false, the one for WindowResizeEvent returns true; the
\* scene gets the event if it is still unhandled
LucreOnEvent(event) ==
    LET afterButton == Dispatch(event, "ControllerButtonPressedEvent", FALSE, FALSE)
        afterKey == Dispatch(event, "KeyPressedEvent", afterButton, FALSE)
        afterResize == Dispatch(event, "WindowResizeEvent", afterKey, TRUE)
    IN  <<<<"application", 0>>>> \o (IF ~afterResize THEN <<<<"scene", 0>>>> ELSE <<>>)

\* Engine::OnEvent
OnEvent(event) ==
    /\ loopPc = "polling"
    /\ polled < MaxEvents
    /\ polled' = polled + 1
    /\ lastEvent' = event
    /\ m_Paused' = IF event.type = "WindowResizeEvent" THEN ResizePauses(event) ELSE m_Paused
    /\ lastResize' = IF event.type # "WindowResizeEvent" THEN lastResize
                     ELSE IF event.width = 0 \/ event.height = 0 THEN "zero"
                     ELSE "nonzero"
    /\ LET afterResize == Dispatch(event, "WindowResizeEvent", FALSE, FALSE)
           afterKey == Dispatch(event, "KeyPressedEvent", afterResize, FALSE)
           afterMouse == Dispatch(event, "MouseMovedEvent", afterKey, TRUE)
           offered == IF ~afterMouse THEN OfferToLayers(LayerOrder(m_LayerStack), event)
                      ELSE <<>>
           afterLayers == afterMouse \/ \E i \in DOMAIN offered : event.layerHandles[offered[i]]
       IN  receivers' = [i \in DOMAIN offered |-> <<"layer", offered[i]>>]
                        \o (IF ~afterLayers THEN LucreOnEvent(event) ELSE <<>>)
    /\ UNCHANGED <<m_Running, loopPc, loopCalls, pausedAtTest, windowOK, m_LayerStack>>
    /\ EngineRest

\* engine.cpp line 63: engine->OnUpdate() begins; m_Window->OnUpdate(),
\* m_Controller.OnUpdate() and the event queue deliver events
BeginEngineOnUpdate ==
    /\ loopPc = "top"
    /\ m_Running
    /\ loopPc' = "polling"
    /\ polled' = 0
    /\ loopCalls' = <<"engine->OnUpdate">>
    /\ UNCHANGED <<m_Running, m_Paused, pausedAtTest, lastResize, windowOK, m_LayerStack,
                   lastEvent, receivers>>
    /\ EngineRest

\* Engine::OnUpdate returns; if (!m_Window->IsOK()) Shutdown() was part of it
EndEngineOnUpdate ==
    /\ loopPc = "polling"
    /\ loopPc' = "body"
    /\ \E ok \in BOOLEAN :
           /\ windowOK' = ok
           /\ m_Running' = IF ok THEN m_Running ELSE FALSE
    /\ UNCHANGED <<m_Paused, polled, loopCalls, pausedAtTest, lastResize, m_LayerStack,
                   lastEvent, receivers>>
    /\ EngineRest

\* engine.cpp lines 65-77: the rest of one iteration of the main loop
LoopBody ==
    /\ loopPc = "body"
    /\ pausedAtTest' = m_Paused
    /\ loopCalls' = loopCalls \o
           (IF ~m_Paused
            THEN <<"application->OnUpdate", "engine->RunScripts", "engine->OnRender">>
            ELSE <<"sleep_for">>)
    /\ loopPc' = "top"
    /\ UNCHANGED <<m_Running, m_Paused, polled, lastResize, windowOK, m_LayerStack,
                   lastEvent, receivers>>
    /\ EngineRest

\* engine.cpp lines 58, 81-82: engine->IsRunning() is false; Quit and Shutdown
LeaveLoop ==
    /\ loopPc = "top"
    /\ ~m_Running
    /\ loopPc' = "left"
    /\ UNCHANGED <<m_Running, m_Paused, polled, loopCalls, pausedAtTest, lastResize,
                   windowOK, m_LayerStack, lastEvent, receivers>>
    /\ EngineRest

EngineNext ==
    \/ BeginEngineOnUpdate
    \/ \E event \in Events : OnEvent(event)
    \/ EndEngineOnUpdate
    \/ LoopBody
    \/ LeaveLoop

\* C16: the engine is paused exactly when the last WindowResizeEvent had a zero
\* width or height; an iteration of the main loop made while paused calls
\* Engine::OnUpdate and then none of application->OnUpdate, RunScripts and
\* OnRender; the loop is left only after the window failed, never for the pause.
C16_PausedLoopOnlyPolls ==
    /\ m_Paused <=> (lastResize = "zero")
    /\ loopCalls # <<>> => loopCalls[1] = "engine->OnUpdate"
    /\ (loopPc = "top" /\ loopCalls # <<>>) =>
           /\ pausedAtTest = m_Paused
           /\ loopCalls = IF m_Paused
                          THEN <<"engine->OnUpdate", "sleep_for">>
                          ELSE <<"engine->OnUpdate", "application->OnUpdate",
                                 "engine->RunScripts", "engine->OnRender">>
    /\ ~m_Running => ~windowOK
    /\ loopPc = "left" => ~m_Running

\* an iteration made while paused, the engine still running, after a resize to
\* a zero height only
C16_Witness ==
    /\ loopPc = "top"
    /\ m_Running
    /\ pausedAtTest
    /\ lastEvent.type = "WindowResizeEvent"
    /\ lastEvent.width = 1
    /\ loopCalls = <<"engine->OnUpdate", "sleep_for">>

\* C17: an event the engine's handlers left unhandled goes to the layers from
\* the last pushed to the first, up to and including the first that marks it
\* handled; the application gets it if and only if no one has handled it, and
\* the scene if and only if the application got it and left it unhandled.
C17_DispatchOrder ==
    lastEvent # NoEvent =>
        LET top == Reverse(m_LayerStack)
            handles(l) == lastEvent.layerHandles[l]
            gotLayers == SelectSeq(receivers, LAMBDA r : r[1] = "layer")
            n == Len(gotLayers)
            gotApplication == \E i \in DOMAIN receivers : receivers[i][1] = "application"
            gotScene == \E i \in DOMAIN receivers : receivers[i][1] = "scene"
        IN  IF lastEvent.type = "MouseMovedEvent" THEN receivers = <<>>
            ELSE /\ n <= Len(top)
                 /\ \A i \in 1..n : receivers[i] = <<"layer", top[i]>>
                 /\ \A i \in 1..(n - 1) : ~handles(top[i])
                 /\ n < Len(top) => (n >= 1 /\ handles(top[n]))
                 /\ gotApplication <=> \A i \in DOMAIN top : ~handles(top[i])
                 /\ gotScene <=> (gotApplication /\ lastEvent.type # "WindowResizeEvent")
                 /\ Len(receivers) = n + (IF gotApplication THEN 1 ELSE 0)
                                       + (IF gotScene THEN 1 ELSE 0)

\* a key press that two layers, the application and the scene get, in this order
C17_Witness ==
    /\ lastEvent # NoEvent
    /\ lastEvent.type = "KeyPressedEvent"
    /\ m_LayerStack = <<1, 2>>
    /\ receivers = <<<<"layer", 2>>, <<"layer", 1>>, <<"application", 0>>, <<"scene", 0>>>>

-----------------------------------------------------------------------------
(* Dictionary::Retrieve and the use of the handles it returns                 *)

\* the names the scenes look up, each with the entity it stands for if present
Names ==
    <<"barrel", "node_damagedHelmet_-6514", "root", "Sponza", "duck", "duneMiddle",
      "1", "lightbulb", "arrow">>

Members ==
    {"m_Barrel", "m_Helmet", "m_ToyCar", "m_Sponza", "m_Dune", "m_Hero", "m_Lightbulb0",
     "m_Lightbulb1"}

\* Dictionary::Retrieve: the entity of the name, entt::null for a name not known
Retrieve(name) ==
    IF name \in dictionary
    THEN CHOOSE i \in DOMAIN Names : Names[i] = name
    ELSE Null

DictInit ==
    /\ dictionary \in SUBSET Range(Names)
    /\ retrieved = [m \in Members |-> Null]
    /\ registryGets = <<>>
    /\ dictState = [s \in Scenes |-> "constructed"]
    /\ dictCall = "none"

DictIdle ==
    /\ dictionary = Range(Names)
    /\ retrieved = [m \in Members |-> Null]
    /\ registryGets = <<>>
    /\ dictState = [s \in Scenes |-> "constructed"]
    /\ dictCall = "none"

\* the registry accesses of: if (handle != entt::null) { m_Registry.get<...>(handle) }
GuardedGet(handle) == IF handle # Null THEN <<handle>> ELSE <<>>

\* MainScene::Load: LoadScripts looks up the duck
MainSceneLoad ==
    /\ dictState["main"] = "constructed"
    /\ dictState' = [dictState EXCEPT !["main"] = "loaded"]
    /\ registryGets' = GuardedGet(Retrieve("duck"))
    /\ dictCall' = "MainScene::Load"
    /\ UNCHANGED <<dictionary, retrieved>>
    /\ DictRest

\* MainScene::Start, lines 102-110
MainSceneStart ==
    /\ dictState["main"] = "loaded"
    /\ dictState' = [dictState EXCEPT !["main"] = "started"]
    /\ retrieved' = [retrieved EXCEPT !["m_Barrel"] = Retrieve("barrel"),
                                      !["m_Helmet"] = Retrieve("node_damagedHelmet_-6514"),
                                      !["m_ToyCar"] = Retrieve("root"),
                                      !["m_Sponza"] = Retrieve("Sponza")]
    /\ registryGets' = GuardedGet(Retrieve("Sponza"))
    /\ dictCall' = "MainScene::Start"
    /\ UNCHANGED dictionary
    /\ DictRest

\* BeachScene::Load: LoadModels looks up the two light bulbs and calls
\* SetLightView on each; LoadScripts is empty
BeachSceneLoad ==
    /\ dictState["beach"] = "constructed"
    /\ dictState' = [dictState EXCEPT !["beach"] = "loaded"]
    /\ retrieved' = [retrieved EXCEPT !["m_Lightbulb0"] = Retrieve("lightbulb"),
                                      !["m_Lightbulb1"] = Retrieve("arrow")]
    /\ registryGets' = <<Retrieve("lightbulb"), Retrieve("arrow")>>
    /\ dictCall' = "BeachScene::Load"
    /\ UNCHANGED dictionary
    /\ DictRest

\* BeachScene::Start: StartScripts looks up the duck; lines 73-74
BeachSceneStart ==
    /\ dictState["beach"] = "loaded"
    /\ dictState' = [dictState EXCEPT !["beach"] = "started"]
    /\ retrieved' = [retrieved EXCEPT !["m_Dune"] = Retrieve("duneMiddle"),
                                      !["m_Hero"] = Retrieve("1")]
    /\ registryGets' = GuardedGet(Retrieve("duck"))
    /\ dictCall' = "BeachScene::Start"
    /\ UNCHANGED dictionary
    /\ DictRest

\* BeachScene::OnUpdate, lines 206-210: AnimateHero, SetLightView twice,
\* SetDirectionalLight twice
BeachSceneOnUpdateGets ==
    /\ dictState["beach"] = "started"
    /\ registryGets' = <<retrieved["m_Hero"], retrieved["m_Lightbulb0"],
                         retrieved["m_Lightbulb1"], retrieved["m_Lightbulb0"],
                         retrieved["m_Lightbulb1"]>>
    /\ dictCall' = "BeachScene::OnUpdate"
    /\ UNCHANGED <<dictionary, retrieved, dictState>>
    /\ DictRest

\* MainScene::OnUpdate uses none of the handles Start has retrieved
MainSceneOnUpdateGets ==
    /\ dictState["main"] = "started"
    /\ registryGets' = <<>>
    /\ dictCall' = "MainScene::OnUpdate"
    /\ UNCHANGED <<dictionary, retrieved, dictState>>
    /\ DictRest

DictNext ==
    \/ MainSceneLoad
    \/ MainSceneStart
    \/ BeachSceneLoad
    \/ BeachSceneStart
    \/ BeachSceneOnUpdateGets
    \/ MainSceneOnUpdateGets

\* C18: no registry.get or view.get is made with the null handle: a handle from
\* Retrieve is compared with entt::null before it is used.
C18_NoGetWithNull == \A i \in DOMAIN registryGets : registryGets[i] # Null

-----------------------------------------------------------------------------
(* VK_Device and VK_RenderSystemPbrNoMap: creation of the Vulkan objects     *)

VkResults == {"VK_SUCCESS", "VK_ERROR_OUT_OF_DEVICE_MEMORY"}

VkObjects ==
    {"m_Instance", "m_Device", "m_GraphicsCommandPool", "m_LoadCommandPool",
     "buffer", "bufferMemory", "image", "imageMemory", "m_PipelineLayout"}

\* the state of an object after its vkCreate / vkAllocate call returned result
VkCreate(result) == IF result = "VK_SUCCESS" THEN "created" ELSE "failed"

\* if (vkCreate...(...) != VK_SUCCESS) { LOG_CORE_CRITICAL(message); }
\* the statement after the macro runs: FindSupportedFormat and FindMemoryType
\* return a value after it
LogCoreCritical(result, message) ==
    IF result # "VK_SUCCESS" THEN <<message>> ELSE <<>>

DeviceInit ==
    /\ vkObjects = [o \in VkObjects |-> "none"]
    /\ deviceSteps = <<>>
    /\ criticalLog = <<>>
    /\ processEnded = FALSE
    /\ deviceCall = "none"

DeviceIdle ==
    /\ vkObjects = [o \in VkObjects |-> "none"]
    /\ deviceSteps = <<>>
    /\ criticalLog = <<>>
    /\ processEnded = FALSE
    /\ deviceCall = "idle"

\* VK_Device::VK_Device: CreateInstance, SetupDebugMessenger, CreateSurface,
\* PickPhysicalDevice, CreateLogicalDevice, CreateCommandPool
VK_Device ==
    /\ ~processEnded
    /\ vkObjects["m_Instance"] = "none"
    /\ \E instance \in VkResults, device \in VkResults,
          graphicsPool \in VkResults, loadPool \in VkResults :
          /\ vkObjects' = [vkObjects EXCEPT
                 !["m_Instance"] = VkCreate(instance),
                 !["m_Device"] = VkCreate(device),
                 !["m_GraphicsCommandPool"] = VkCreate(graphicsPool),
                 !["m_LoadCommandPool"] = VkCreate(loadPool)]
          /\ criticalLog' =
                 LogCoreCritical(instance, "failed to create instance!")
                 \o LogCoreCritical(device, "failed to create logical device!")
                 \o LogCoreCritical(graphicsPool, "failed to create graphics command pool!")
                 \o LogCoreCritical(loadPool, "failed to create load command pool!")
          /\ deviceSteps' =
                 << <<"vkEnumeratePhysicalDevices", "m_Instance", VkCreate(instance)>>,
                    <<"vkGetDeviceQueue", "m_Device", VkCreate(device)>>,
                    <<"vkCreateCommandPool", "m_Device", VkCreate(device)>>,
                    <<"vkCreateCommandPool", "m_Device", VkCreate(device)>> >>
    /\ deviceCall' = "VK_Device"
    /\ UNCHANGED processEnded
    /\ DeviceRest

\* VK_Device::CreateBuffer
CreateBuffer ==
    /\ ~processEnded
    /\ vkObjects["m_Device"] # "none"
    /\ \E buffer \in VkResults, bufferMemory \in VkResults :
          /\ vkObjects' = [vkObjects EXCEPT !["buffer"] = VkCreate(buffer),
                                            !["bufferMemory"] = VkCreate(bufferMemory)]
          /\ criticalLog' =
                 LogCoreCritical(buffer, "failed to create vertex buffer!")
                 \o LogCoreCritical(bufferMemory, "failed to allocate vertex buffer memory!")
          /\ deviceSteps' =
                 << <<"vkGetBufferMemoryRequirements", "buffer", VkCreate(buffer)>>,
                    <<"vkBindBufferMemory", "buffer", VkCreate(buffer)>>,
                    <<"vkBindBufferMemory", "bufferMemory", VkCreate(bufferMemory)>> >>
    /\ deviceCall' = "CreateBuffer"
    /\ UNCHANGED processEnded
    /\ DeviceRest

\* VK_Device::CreateImageWithInfo
CreateImageWithInfo ==
    /\ ~processEnded
    /\ vkObjects["m_Device"] # "none"
    /\ \E image \in VkResults, imageMemory \in VkResults, bind \in VkResults :
          /\ vkObjects' = [vkObjects EXCEPT !["image"] = VkCreate(image),
                                            !["imageMemory"] = VkCreate(imageMemory)]
          /\ criticalLog' =
                 LogCoreCritical(image, "failed to create image!")
                 \o LogCoreCritical(imageMemory, "failed to allocate image memory!")
                 \o LogCoreCritical(bind, "failed to bind image memory!")
          /\ deviceSteps' =
                 << <<"vkGetImageMemoryRequirements", "image", VkCreate(image)>>,
                    <<"vkBindImageMemory", "image", VkCreate(image)>>,
                    <<"vkBindImageMemory", "imageMemory", VkCreate(imageMemory)>> >>
    /\ deviceCall' = "CreateImageWithInfo"
    /\ UNCHANGED processEnded
    /\ DeviceRest

\* VK_RenderSystemPbrNoMap::VK_RenderSystemPbrNoMap: CreatePipelineLayout, then
\* CreatePipeline.  What vkCreatePipelineLayout leaves in m_PipelineLayout when
\* it fails is not specified: the handle is null or it is not (isNull).
VK_RenderSystemPbrNoMap ==
    /\ ~processEnded
    /\ vkObjects["m_Device"] # "none"
    /\ \E layout \in VkResults, isNull \in BOOLEAN :
          /\ layout = "VK_SUCCESS" => ~isNull
          /\ vkObjects' = [vkObjects EXCEPT !["m_PipelineLayout"] = VkCreate(layout)]
          /\ criticalLog' = LogCoreCritical(layout, "failed to create pipeline layout!")
          /\ IF AssertPasses(~isNull)
             THEN /\ deviceSteps' =
                         << <<"VK_Pipeline", "m_PipelineLayout", VkCreate(layout)>> >>
                  /\ UNCHANGED processEnded
             ELSE /\ deviceSteps' = <<>>
                  /\ processEnded' = TRUE
    /\ deviceCall' = "VK_RenderSystemPbrNoMap"
    /\ DeviceRest

DeviceNext ==
    \/ VK_Device
    \/ CreateBuffer
    \/ CreateImageWithInfo
    \/ VK_RenderSystemPbrNoMap

\* C19: a failed creation of a Vulkan object during construction is fatal: the
\* process has ended once a failure was logged, and no later call of the
\* operation was made with the object that failed to be created.
C19_FailedCreationIsFatal ==
    /\ criticalLog # <<>> => processEnded
    /\ \A i \in DOMAIN deviceSteps : deviceSteps[i][3] # "failed"

-----------------------------------------------------------------------------
(* BeachScene: the directional lights and the shadow passes submitted for    *)
(* them; VK_LightSystem::Update, directional lights                          *)

\* m_DirectionalLight0 and m_DirectionalLight1
DirectionalLights == {1, 2}

\* a member of a DirectionalLightComponent that was not written yet
Unset == -1

\* m_Lightbulb0 belongs to m_DirectionalLight0, m_Lightbulb1 to m_DirectionalLight1
QuarterTurns == 0..3

\* the GlobalUniformBuffer the renderer hands to Update holds what was left in it
ShadowInit ==
    /\ shadowScene \in {"main", "beach"}
    /\ shadowState = "constructed"
    /\ shadowFrame = 0
    /\ bulbRotation \in [DirectionalLights -> QuarterTurns]
    /\ directionalView = {}
    /\ directionalLight =
           [e \in DirectionalLights |-> [m_Direction |-> Unset, m_RenderPass |-> Unset]]
    /\ m_DirectionalLights = <<>>
    /\ submitted = <<>>
    /\ \E direction \in QuarterTurns \cup {Unset} :
           uboDirectional = [m_Direction |-> direction,
                             m_NumberOfActiveDirectionalLights |-> 0,
                             holds |-> {}]
    /\ shadowCall = "none"

ShadowIdle ==
    /\ shadowScene = "main"
    /\ shadowState = "constructed"
    /\ shadowFrame = 0
    /\ bulbRotation = [e \in DirectionalLights |-> 0]
    /\ directionalView = {}
    /\ directionalLight =
           [e \in DirectionalLights |-> [m_Direction |-> Unset, m_RenderPass |-> Unset]]
    /\ m_DirectionalLights = <<>>
    /\ submitted = <<>>
    /\ uboDirectional = [m_Direction |-> Unset, m_NumberOfActiveDirectionalLights |-> 0,
                         holds |-> {}]
    /\ shadowCall = "idle"

\* &m_Registry.get<DirectionalLightComponent>(entity), taken in the current frame
PointerTo(entity) == [entity |-> entity, taken |-> shadowFrame]

\* BeachScene::Start, lines 104-113: the two directional lights are created and
\* a pointer to the component of each is pushed to m_DirectionalLights
StartDirectionalLights ==
    /\ shadowScene = "beach"
    /\ shadowState = "constructed"
    /\ shadowCall # "terminated"
    /\ shadowState' = "started"
    /\ directionalView' = DirectionalLights
    /\ m_DirectionalLights' = <<PointerTo(1), PointerTo(2)>>
    /\ shadowCall' = "BeachScene::Start"
    /\ UNCHANGED <<shadowScene, shadowFrame, bulbRotation, directionalLight, submitted,
                   uboDirectional>>
    /\ ShadowRest

\* MainScene::Start creates point lights only: no entity of the main scene
\* carries a DirectionalLightComponent
StartPointLightsOnly ==
    /\ shadowScene = "main"
    /\ shadowState = "constructed"
    /\ shadowCall # "terminated"
    /\ shadowState' = "started"
    /\ directionalView' = {}
    /\ shadowCall' = "MainScene::Start"
    /\ UNCHANGED <<shadowScene, shadowFrame, bulbRotation, directionalLight,
                   m_DirectionalLights, submitted, uboDirectional>>
    /\ ShadowRest

\* SetDirectionalLight(directionalLight, lightbulb, lightView, renderpass)
SetDirectionalLight(components, entity, renderpass) ==
    [components EXCEPT ![entity] =
        [m_Direction |-> bulbRotation[entity], m_RenderPass |-> renderpass]]

\* VK_RenderSystemShadow::VK_RenderSystemShadow: the render pass each pipeline
\* was created for
PipelineRenderPass(pipeline) == IF pipeline = "m_Pipeline0" THEN 0 ELSE 1

\* a render system that binds m_Pipeline1 for render pass 0
BoundPipelineSwapped(m_RenderPass) ==
    IF m_RenderPass = 0 THEN "m_Pipeline1" ELSE "m_Pipeline0"

\* VK_RenderSystemShadow::RenderEntities, lines 117-124: the pipeline it binds
BoundPipeline(m_RenderPass) ==
    IF m_RenderPass = 0 THEN "m_Pipeline0" ELSE "m_Pipeline1"

\* Renderer::SubmitShadows(registry, directionalLights): one shadow pass for each
\* light of the list; the pass calls VK_RenderSystemShadow::RenderEntities, which
\* reads m_RenderPass through the pointer and binds a pipeline
SubmitShadows(components, lights) ==
    [i \in DOMAIN lights |->
        [entity |-> lights[i].entity,
         taken |-> lights[i].taken,
         m_RenderPass |-> components[lights[i].entity].m_RenderPass,
         pipeline |-> BoundPipeline(components[lights[i].entity].m_RenderPass)]]

\* BeachScene::OnUpdate, lines 209-215: SetDirectionalLight for both lights,
\* then SubmitShadows(m_Registry, m_DirectionalLights)
OnUpdateDirectionalLights ==
    /\ shadowScene = "beach"
    /\ shadowState = "started"
    /\ shadowCall # "terminated"
    /\ shadowFrame < MaxFrames
    /\ shadowFrame' = shadowFrame + 1
    /\ directionalLight' =
           SetDirectionalLight(SetDirectionalLight(directionalLight, 1, 0), 2, 1)
    /\ submitted' = SubmitShadows(directionalLight', m_DirectionalLights)
    /\ shadowCall' = "BeachScene::OnUpdate"
    /\ UNCHANGED <<shadowScene, shadowState, bulbRotation, directionalView,
                   m_DirectionalLights, uboDirectional>>
    /\ ShadowRest

\* MainScene::OnUpdate, line 260: SubmitShadows(m_Registry), no list of lights
OnUpdateNoDirectionalLights ==
    /\ shadowScene = "main"
    /\ shadowState = "started"
    /\ shadowCall # "terminated"
    /\ shadowFrame < MaxFrames
    /\ shadowFrame' = shadowFrame + 1
    /\ submitted' = SubmitShadows(directionalLight, <<>>)
    /\ shadowCall' = "MainScene::OnUpdate"
    /\ UNCHANGED <<shadowScene, shadowState, bulbRotation, directionalView,
                   directionalLight, m_DirectionalLights, uboDirectional>>
    /\ ShadowRest

\* a light system that reports at least one directional light
WriteNumberAtLeastOne(globalUbo, lightIndex) ==
    [globalUbo EXCEPT !.m_NumberOfActiveDirectionalLights =
                    IF lightIndex = 0 THEN 1 ELSE lightIndex]

\* line 196: globalUbo.m_NumberOfActiveDirectionalLights = lightIndex
WriteNumber(globalUbo, lightIndex) ==
    [globalUbo EXCEPT !.m_NumberOfActiveDirectionalLights = lightIndex]

RECURSIVE CopyDirectionalLights(_, _, _)
\* lines 183-194: the loop over the view; every light is copied to the one
\* ubo.m_DirectionalLight, so the ubo holds the data of the light visited last
CopyDirectionalLights(view, lightIndex, globalUbo) ==
    IF view = <<>> THEN WriteNumber(globalUbo, lightIndex)
    ELSE CopyDirectionalLights(Tail(view), lightIndex + 1,
             [globalUbo EXCEPT !.m_Direction = directionalLight[Head(view)].m_Direction,
                         !.holds = {Head(view)}])

\* VK_LightSystem::Update, lines 180-197: the directional lights
UpdateDirectionalLights ==
    /\ shadowState = "started"
    /\ shadowCall # "terminated"
    /\ LET view == ViewOrder(directionalView)
       IN  IF \A lightIndex \in 0..(Len(view) - 1) : AssertPasses(IndexInRange(lightIndex))
           THEN /\ uboDirectional' = CopyDirectionalLights(view, 0, uboDirectional)
                /\ shadowCall' = "VK_LightSystem::Update"
           ELSE /\ shadowCall' = "terminated"
                /\ UNCHANGED uboDirectional
    /\ UNCHANGED <<shadowScene, shadowState, shadowFrame, bulbRotation, directionalView,
                   directionalLight, m_DirectionalLights, submitted>>
    /\ ShadowRest

ShadowNext ==
    \/ StartDirectionalLights
    \/ StartPointLightsOnly
    \/ OnUpdateDirectionalLights
    \/ OnUpdateNoDirectionalLights
    \/ UpdateDirectionalLights

\* C20: the directional lights of a frame are taken from the registry in that
\* frame: the lights BeachScene submits shadow passes for are exactly the
\* entities in view<DirectionalLightComponent>, and none of them is reached
\* through a pointer that was taken in Start() or in an earlier frame.
C20_LightsRederivedEachFrame ==
    shadowCall = "BeachScene::OnUpdate" =>
        /\ {submitted[i].entity : i \in DOMAIN submitted} = directionalView
        /\ \A i \in DOMAIN submitted : submitted[i].taken = shadowFrame

\* C21: with no entity carrying a DirectionalLightComponent a frame completes:
\* Update writes 0 to m_NumberOfActiveDirectionalLights and leaves
\* ubo.m_DirectionalLight as it was, no ASSERT ends the process, and the shadow
\* submission of MainScene runs no shadow pass and reads no directional light.
C21_NoLightsNoShadowPass ==
    [][/\ (shadowCall' = "VK_LightSystem::Update" /\ directionalView = {}) =>
              /\ uboDirectional'.m_NumberOfActiveDirectionalLights = 0
              /\ uboDirectional'.m_Direction = uboDirectional.m_Direction
       /\ shadowCall' = "MainScene::OnUpdate" => submitted' = <<>>
       /\ directionalView = {} => shadowCall' # "terminated"]_vars

C21_Witness ==
    /\ shadowScene = "main"
    /\ shadowFrame >= 1
    /\ directionalView = {}
    /\ shadowCall = "VK_LightSystem::Update"
    /\ uboDirectional.m_Direction # Unset
    /\ uboDirectional.m_NumberOfActiveDirectionalLights = 0
    /\ submitted = <<>>

\* C23: in every BeachScene frame the two directional lights are submitted with
\* the render-pass indices 0 and 1, and the shadow render system binds m_Pipeline0
\* exactly for index 0 and m_Pipeline1 otherwise, so each shadow pass uses the
\* pipeline that was created for its render pass.
C23_PipelineMatchesRenderPass ==
    shadowCall = "BeachScene::OnUpdate" =>
        /\ [i \in DOMAIN submitted |-> submitted[i].m_RenderPass] = <<0, 1>>
        /\ \A i \in DOMAIN submitted :
               /\ submitted[i].pipeline = "m_Pipeline0" <=> submitted[i].m_RenderPass = 0
               /\ PipelineRenderPass(submitted[i].pipeline) = submitted[i].m_RenderPass

C23_Witness ==
    /\ shadowCall = "BeachScene::OnUpdate"
    /\ Len(submitted) = 2
    /\ submitted[1].pipeline = "m_Pipeline0"
    /\ submitted[2].pipeline = "m_Pipeline1"

\* C29: after Update the number of active directional lights is the number of
\* lights whose data the uniform buffer holds: with two or more directional
\* lights the data of every one of them is in the buffer.
C29_AllCountedLightsInUbo ==
    shadowCall = "VK_LightSystem::Update" =>
        Cardinality(uboDirectional.holds) =
            uboDirectional.m_NumberOfActiveDirectionalLights

-----------------------------------------------------------------------------
(* VK_Device: BeginSingleTimeCommands / EndSingleTimeCommands, CopyBuffer,    *)
(* CopyBufferToImage, and the device queues that execute submitted work       *)

CommandBufferIds == 1..MaxUploads

\* the command buffer of a frame, submitted by the renderer
FrameCommandBuffer == 0

DeviceQueues == {"LOAD_QUEUE", "GRAPHICS_QUEUE"}

NoCommandBuffer == [pool |-> "none", state |-> "none", executed |-> FALSE]

UploadInit ==
    /\ uploadPc = "idle"
    /\ uploadCaller = "none"
    /\ commandBuffers = [id \in CommandBufferIds |-> NoCommandBuffer]
    /\ \E n \in 0..MaxGraphicsWork :
           m_DeviceQueues = [q \in DeviceQueues |->
               IF q = "GRAPHICS_QUEUE" THEN [i \in 1..n |-> FrameCommandBuffer] ELSE <<>>]
    /\ uploadEvents = <<>>

UploadIdle ==
    /\ uploadPc = "idle"
    /\ uploadCaller = "idle"
    /\ commandBuffers = [id \in CommandBufferIds |-> NoCommandBuffer]
    /\ m_DeviceQueues = [q \in DeviceQueues |-> <<>>]
    /\ uploadEvents = <<>>

\* CopyBuffer / CopyBufferToImage up to their EndSingleTimeCommands call:
\* BeginSingleTimeCommands allocates one command buffer from m_LoadCommandPool
\* and begins it, the caller records its copy command
BeginSingleTimeCommands ==
    /\ uploadPc = "idle"
    /\ \E id \in CommandBufferIds :
          /\ commandBuffers[id].state = "none"
          /\ \A other \in CommandBufferIds :
                 other < id => commandBuffers[other].state # "none"
          /\ commandBuffers' = [commandBuffers EXCEPT ![id] =
                 [pool |-> "m_LoadCommandPool", state |-> "recording", executed |-> FALSE]]
          /\ \E caller \in {"CopyBuffer", "CopyBufferToImage"} :
                 /\ uploadCaller' = caller
                 /\ uploadEvents' = uploadEvents
                        \o << <<"vkAllocateCommandBuffers", "m_LoadCommandPool", id>>,
                              <<IF caller = "CopyBuffer" THEN "vkCmdCopyBuffer"
                                ELSE "vkCmdCopyBufferToImage", "commandBuffer", id>> >>
    /\ uploadPc' = "recording"
    /\ UNCHANGED m_DeviceQueues
    /\ UploadRest

\* EndSingleTimeCommands, lines 627-634: vkEndCommandBuffer and vkQueueSubmit;
\* the thread then stands in vkQueueWaitIdle
EndSingleTimeCommandsSubmit ==
    /\ uploadPc = "recording"
    /\ \E id \in CommandBufferIds :
          /\ commandBuffers[id].state = "recording"
          /\ commandBuffers' = [commandBuffers EXCEPT ![id].state = "pending"]
          /\ m_DeviceQueues' = [m_DeviceQueues EXCEPT
                 !["LOAD_QUEUE"] = Append(m_DeviceQueues["LOAD_QUEUE"], id)]
          /\ uploadEvents' = Append(uploadEvents, <<"vkQueueSubmit", "LOAD_QUEUE", id>>)
    /\ uploadPc' = "waiting"
    /\ UNCHANGED uploadCaller
    /\ UploadRest

\* the device executes the oldest work of a queue
QueueExecutes ==
    /\ \E q \in DeviceQueues :
          /\ m_DeviceQueues[q] # <<>>
          /\ m_DeviceQueues' = [m_DeviceQueues EXCEPT ![q] = Tail(m_DeviceQueues[q])]
          /\ commandBuffers' =
                 IF Head(m_DeviceQueues[q]) \in CommandBufferIds
                 THEN [commandBuffers EXCEPT ![Head(m_DeviceQueues[q])].executed = TRUE]
                 ELSE commandBuffers
    /\ UNCHANGED <<uploadPc, uploadCaller, uploadEvents>>
    /\ UploadRest

\* a wait that returns while the queue still has work
WaitIdleReturnsAtOnce(queue) == TRUE

\* vkQueueWaitIdle(queue) returns when the queue has executed all its work
WaitIdleReturns(queue) == m_DeviceQueues[queue] = <<>>

\* EndSingleTimeCommands, lines 635-637: vkQueueWaitIdle returns, the command
\* buffer is freed, EndSingleTimeCommands and its caller return
EndSingleTimeCommandsReturn ==
    /\ uploadPc = "waiting"
    /\ WaitIdleReturns("LOAD_QUEUE")
    /\ \E id \in CommandBufferIds :
          /\ commandBuffers[id].state = "pending"
          /\ commandBuffers' = [commandBuffers EXCEPT ![id].state = "freed"]
          /\ uploadEvents' = uploadEvents
                 \o << <<"vkQueueWaitIdle", "LOAD_QUEUE", id>>,
                       <<"vkFreeCommandBuffers", "m_LoadCommandPool", id>> >>
    /\ uploadPc' = "idle"
    /\ UNCHANGED <<uploadCaller, m_DeviceQueues>>
    /\ UploadRest

UploadNext ==
    \/ BeginSingleTimeCommands
    \/ EndSingleTimeCommandsSubmit
    \/ QueueExecutes
    \/ EndSingleTimeCommandsReturn

\* C22: one-shot uploads are blocking and apart from the graphics path: every
\* command buffer of BeginSingleTimeCommands comes from the load command pool,
\* is submitted to the LOAD_QUEUE only, and is freed only after the device has
\* executed it; EndSingleTimeCommands has not returned while the upload is
\* pending, and it neither submits to nor waits on the GRAPHICS_QUEUE.
C22_UploadsBlockOnLoadQueue ==
    /\ \A id \in CommandBufferIds :
          /\ commandBuffers[id].state # "none" =>
                 commandBuffers[id].pool = "m_LoadCommandPool"
          /\ commandBuffers[id].state = "freed" => commandBuffers[id].executed
          /\ uploadPc = "idle" => commandBuffers[id].state \in {"none", "freed"}
    /\ \A i \in DOMAIN uploadEvents :
          /\ uploadEvents[i][1] \in {"vkQueueSubmit", "vkQueueWaitIdle"} =>
                 uploadEvents[i][2] = "LOAD_QUEUE"
          /\ uploadEvents[i][1] \in {"vkAllocateCommandBuffers", "vkFreeCommandBuffers"} =>
                 uploadEvents[i][2] = "m_LoadCommandPool"
    /\ \A i \in DOMAIN m_DeviceQueues["GRAPHICS_QUEUE"] :
          m_DeviceQueues["GRAPHICS_QUEUE"][i] = FrameCommandBuffer

\* an upload has returned while the graphics queue still has work of a frame
C22_Witness ==
    /\ uploadPc = "idle"
    /\ commandBuffers[1].state = "freed"
    /\ commandBuffers[1].executed
    /\ m_DeviceQueues["GRAPHICS_QUEUE"] # <<>>

-----------------------------------------------------------------------------
(* Engine::QueueEvent and the event queue drained in Engine::OnUpdate.  The   *)
(* queue is a std::vector without a lock; QueueEvent is called from a timer   *)
(* callback (MainScene::Start) and may be called from an event handler.       *)

QueueInit ==
    /\ m_EventQueue = <<>>
    /\ queuedEvents = 0
    /\ drainPc = "idle"
    /\ drainIt = 0
    /\ drainEnd = 0
    /\ dispatched = <<>>

QueueIdle ==
    /\ m_EventQueue = <<>>
    /\ queuedEvents = 0
    /\ drainPc = "at rest"
    /\ drainIt = 0
    /\ drainEnd = 0
    /\ dispatched = <<>>

\* Engine::QueueEvent: m_EventQueue.push_back(std::move(event)).  While the
\* range-for loop of OnUpdate runs, the push_back is not ordered with the loop
\* (and may move the vector's storage): the loop may or may not go on to the
\* new element.
QueueEvent ==
    /\ queuedEvents < MaxQueued
    /\ queuedEvents' = queuedEvents + 1
    /\ m_EventQueue' = Append(m_EventQueue, queuedEvents + 1)
    /\ IF drainPc = "iterating"
       THEN \E visited \in BOOLEAN :
                drainEnd' = IF visited THEN Len(m_EventQueue) + 1 ELSE drainEnd
       ELSE UNCHANGED drainEnd
    /\ UNCHANGED <<drainPc, drainIt, dispatched>>
    /\ QueueRest

\* Engine::OnUpdate, lines 157-159: if (m_EventQueue.size()) the loop starts
DrainBegin ==
    /\ drainPc = "idle"
    /\ m_EventQueue # <<>>
    /\ drainPc' = "iterating"
    /\ drainIt' = 1
    /\ drainEnd' = Len(m_EventQueue)
    /\ UNCHANGED <<m_EventQueue, queuedEvents, dispatched>>
    /\ QueueRest

\* lines 159-162: one iteration, OnEvent(*event.get())
DrainOnEvent ==
    /\ drainPc = "iterating"
    /\ drainIt <= drainEnd
    /\ dispatched' = Append(dispatched, m_EventQueue[drainIt])
    /\ drainIt' = drainIt + 1
    /\ UNCHANGED <<m_EventQueue, queuedEvents, drainPc, drainEnd>>
    /\ QueueRest

\* the loop has reached its end
DrainLoopEnd ==
    /\ drainPc = "iterating"
    /\ drainIt > drainEnd
    /\ drainPc' = "clearing"
    /\ UNCHANGED <<m_EventQueue, queuedEvents, drainIt, drainEnd, dispatched>>
    /\ QueueRest

\* line 163: m_EventQueue.clear()
DrainClear ==
    /\ drainPc = "clearing"
    /\ m_EventQueue' = <<>>
    /\ drainPc' = "idle"
    /\ drainIt' = 0
    /\ drainEnd' = 0
    /\ UNCHANGED <<queuedEvents, dispatched>>
    /\ QueueRest

QueueNext ==
    \/ QueueEvent
    \/ DrainBegin
    \/ DrainOnEvent
    \/ DrainLoopEnd
    \/ DrainClear

\* C24: queued events are neither lost nor dispatched twice: the events passed
\* to OnEvent are the queued events in the order they were queued, each once,
\* and when OnUpdate has emptied the queue every queued event has been passed,
\* also when QueueEvent runs while OnUpdate iterates over and clears the queue.
C24_QueuedEventsDispatchedOnce ==
    /\ dispatched = [i \in 1..Len(dispatched) |-> i]
    /\ (drainPc = "idle" /\ m_EventQueue = <<>>) => Len(dispatched) = queuedEvents

-----------------------------------------------------------------------------
(* engine(): start of the engine and the application, the main loop, and the  *)
(* calls made when the loop is left                                           *)

EntryInit ==
    /\ entryPc = "begin"
    /\ entryRunning = FALSE
    /\ appEventCallback = FALSE
    /\ entryCalls = <<>>
    /\ entryReturn = "none"
    /\ iterations = 0

EntryIdle ==
    /\ entryPc = "at rest"
    /\ entryRunning = FALSE
    /\ appEventCallback = FALSE
    /\ entryCalls = <<>>
    /\ entryReturn = "none"
    /\ iterations = 0

\* an Engine::Start that sets the running flag before its checks
RunningSetFirst(windowIsOK, controllerStarted) == TRUE

\* Engine::Start: m_Running = true (line 124) is reached only past both returns
RunningAfterStart(windowIsOK, controllerStarted) == windowIsOK /\ controllerStarted

\* engine.cpp lines 38-46: the Engine is made and engine->Start() is called;
\* Engine::Start returns false if the window is not OK or the controller
\* does not start
EngineStart ==
    /\ entryPc = "begin"
    /\ \E logInit \in BOOLEAN, windowIsOK \in BOOLEAN, controllerStarted \in BOOLEAN :
          LET started == windowIsOK /\ controllerStarted
              printed == IF logInit THEN <<>> ELSE <<"Could not initialize logger">>
          IN  /\ entryRunning' = RunningAfterStart(windowIsOK, controllerStarted)
              /\ entryCalls' = entryCalls \o printed
                     \o <<IF started THEN "Engine::Start true" ELSE "Engine::Start false">>
              /\ entryPc' = IF started THEN "engineStarted" ELSE "returned"
              /\ entryReturn' = IF started THEN "none" ELSE "-1"
    /\ UNCHANGED <<appEventCallback, iterations>>
    /\ EntryRest

\* engine.cpp lines 47-55: Application::Create, application->Start() and
\* engine->SetAppEventCallback
ApplicationStart ==
    /\ entryPc = "engineStarted"
    /\ \E started \in BOOLEAN :
          /\ entryCalls' = Append(entryCalls,
                 IF started THEN "Application::Start true" ELSE "Application::Start false")
          /\ appEventCallback' = started
          /\ entryPc' = IF started THEN "loopTop" ELSE "returned"
          /\ entryReturn' = IF started THEN "none" ELSE "-1"
    /\ UNCHANGED <<entryRunning, iterations>>
    /\ EntryRest

\* engine.cpp lines 58-63: engine->IsRunning() is true and engine->OnUpdate()
\* is called; Engine::OnUpdate calls Shutdown() if the window is not OK
LoopOnUpdate ==
    /\ entryPc = "loopTop"
    /\ entryRunning
    /\ iterations < MaxIterations
    /\ \E windowIsOK \in BOOLEAN :
          /\ entryCalls' = entryCalls \o <<"engine->OnUpdate">>
                 \o (IF windowIsOK THEN <<>> ELSE <<"Engine::Shutdown">>)
          /\ entryRunning' = windowIsOK
    /\ entryPc' = "afterOnUpdate"
    /\ UNCHANGED <<appEventCallback, entryReturn, iterations>>
    /\ EntryRest

\* engine.cpp lines 65-77: the rest of the iteration
LoopAfterOnUpdate ==
    /\ entryPc = "afterOnUpdate"
    /\ \E isPaused \in BOOLEAN :
          entryCalls' = entryCalls \o
              (IF ~isPaused
               THEN <<"application->OnUpdate", "engine->RunScripts", "engine->OnRender">>
               ELSE <<"sleep_for">>)
    /\ entryPc' = "loopTop"
    /\ iterations' = iterations + 1
    /\ UNCHANGED <<entryRunning, appEventCallback, entryReturn>>
    /\ EntryRest

\* engine.cpp lines 58, 81-89: engine->IsRunning() is false; engine->Quit(),
\* application->Shutdown(), return 0
LoopExit ==
    /\ entryPc = "loopTop"
    /\ ~entryRunning
    /\ entryCalls' = entryCalls \o <<"engine->Quit", "application->Shutdown">>
    /\ entryPc' = "returned"
    /\ entryReturn' = "0"
    /\ UNCHANGED <<entryRunning, appEventCallback, iterations>>
    /\ EntryRest

EntryNext ==
    \/ EngineStart
    \/ ApplicationStart
    \/ LoopOnUpdate
    \/ LoopAfterOnUpdate
    \/ LoopExit

\* the number of times a call occurs in a sequence of calls
Occurrences(calls, call) == Cardinality({i \in DOMAIN calls : calls[i] = call})

\* C25: once Engine::OnUpdate has called Shutdown, no application->OnUpdate,
\* RunScripts or OnRender call follows; the loop is left and Quit, then
\* Application::Shutdown, are each called once.
C25_NothingRunsAfterShutdown ==
    /\ \A i \in DOMAIN entryCalls : \A j \in DOMAIN entryCalls :
           (entryCalls[i] = "Engine::Shutdown" /\ i < j) =>
               entryCalls[j] \notin
                   {"application->OnUpdate", "engine->RunScripts", "engine->OnRender"}
    /\ entryReturn = "0" =>
           /\ Occurrences(entryCalls, "engine->Quit") = 1
           /\ Occurrences(entryCalls, "application->Shutdown") = 1
           /\ entryCalls[Len(entryCalls) - 1] = "engine->Quit"
           /\ entryCalls[Len(entryCalls)] = "application->Shutdown"

\* C26: a failed Engine::Start leaves the running flag false; if Engine::Start
\* or Application::Start returns false, engine() returns -1 with no iteration
\* of the main loop made, no application event callback installed and neither
\* Quit nor Application::Shutdown called; the running flag is true only after
\* Engine::Start has returned true.
C26_FailedStartReturnsMinusOne ==
    /\ Occurrences(entryCalls, "Engine::Start false") = 1 => ~entryRunning
    /\ entryRunning => Occurrences(entryCalls, "Engine::Start true") = 1
    /\ (Occurrences(entryCalls, "Engine::Start false") = 1
        \/ Occurrences(entryCalls, "Application::Start false") = 1) =>
           /\ entryReturn = "-1"
           /\ entryPc = "returned"
           /\ iterations = 0
           /\ Occurrences(entryCalls, "engine->OnUpdate") = 0
           /\ ~appEventCallback
           /\ Occurrences(entryCalls, "engine->Quit") = 0
           /\ Occurrences(entryCalls, "application->Shutdown") = 0
    /\ entryReturn = "-1" =>
           (Occurrences(entryCalls, "Engine::Start false") = 1
            \/ Occurrences(entryCalls, "Application::Start false") = 1)

\* the controller did not start: Engine::Start has returned false
C26_Witness ==
    /\ entryReturn = "-1"
    /\ ~entryRunning
    /\ Occurrences(entryCalls, "Engine::Start false") = 1
    /\ Occurrences(entryCalls, "Could not initialize logger") = 1

-----------------------------------------------------------------------------
(* Lucre::OnAppEvent and Lucre::Cancel on the game state.  GameState keeps    *)
(* the state and the next state; its State values are ordered, the game      *)
(* levels being the values above CUTSCENE.                                    *)

SPLASH == 0

CUTSCENE == 2

\* GameState::State: SPLASH, one more menu state, CUTSCENE and two game levels
GameStates == 0..4

GamestateInit ==
    /\ gsState \in GameStates
    /\ gsNextState \in GameStates
    /\ timerResets = 0
    /\ gsGUIisRunning \in BOOLEAN
    /\ appEvents = 0
    /\ gsCall = <<"none", SPLASH>>

GamestateIdle ==
    /\ gsState = SPLASH
    /\ gsNextState = SPLASH
    /\ timerResets = 0
    /\ gsGUIisRunning = FALSE
    /\ appEvents = 0
    /\ gsCall = <<"idle", SPLASH>>

\* a handler that also acts during a cutscene
AcceptsSceneChangeAlways(state) == TRUE

\* lucre.cpp line 229: m_GameState.GetState() != GameState::State::CUTSCENE
AcceptsSceneChange(state) == state # CUTSCENE

\* lucre.cpp line 232: static_cast<int>(event.GetScene()) > static_cast<int>(CUTSCENE)
IsGameLevel(scene) == scene > CUTSCENE

\* Lucre::OnAppEvent with a SceneChangedEvent for scene
SceneChangedEvent(scene) ==
    /\ appEvents < MaxAppEvents
    /\ appEvents' = appEvents + 1
    /\ IF AcceptsSceneChange(gsState)
       THEN IF IsGameLevel(scene)
            THEN /\ timerResets' = timerResets + 1
                 /\ gsState' = CUTSCENE
                 /\ gsNextState' = scene
            ELSE /\ gsState' = scene
                 /\ UNCHANGED <<gsNextState, timerResets>>
       ELSE UNCHANGED <<gsState, gsNextState, timerResets>>
    /\ gsCall' = <<"SceneChangedEvent", scene>>
    /\ UNCHANGED gsGUIisRunning
    /\ GamestateRest

\* Lucre::OnAppEvent with a SceneFinishedEvent: m_CurrentScene->Stop()
SceneFinishedEvent ==
    /\ appEvents < MaxAppEvents
    /\ appEvents' = appEvents + 1
    /\ gsCall' = <<"SceneFinishedEvent", SPLASH>>
    /\ UNCHANGED <<gsState, gsNextState, timerResets, gsGUIisRunning>>
    /\ GamestateRest

\* Lucre::Cancel
LucreCancel ==
    /\ appEvents < MaxAppEvents
    /\ appEvents' = appEvents + 1
    /\ gsGUIisRunning' = IF gsState # SPLASH THEN ~gsGUIisRunning ELSE gsGUIisRunning
    /\ gsCall' = <<"Cancel", SPLASH>>
    /\ UNCHANGED <<gsState, gsNextState, timerResets>>
    /\ GamestateRest

GamestateNext ==
    \/ \E scene \in GameStates : SceneChangedEvent(scene)
    \/ SceneFinishedEvent
    \/ LucreCancel

\* C27: a SceneChangedEvent received in CUTSCENE changes neither the state nor
\* the next state; outside CUTSCENE a request for a game level sets the state
\* to CUTSCENE and the next state to the level and resets the cutscene timer,
\* and a request for another scene sets the state to that scene; Cancel toggles
\* the GUI flag in every state but SPLASH, where it leaves it as it is.
C27_SceneChangeStateMachine ==
    [][/\ (appEvents' = appEvents + 1 /\ gsCall'[1] = "SceneChangedEvent") =>
              IF gsState = CUTSCENE
              THEN gsState' = gsState /\ gsNextState' = gsNextState
              ELSE IF gsCall'[2] > CUTSCENE
              THEN /\ gsState' = CUTSCENE
                   /\ gsNextState' = gsCall'[2]
                   /\ timerResets' = timerResets + 1
              ELSE gsState' = gsCall'[2]
       /\ (appEvents' = appEvents + 1 /\ gsCall'[1] = "Cancel") =>
              gsGUIisRunning' = IF gsState = SPLASH THEN gsGUIisRunning
                                ELSE ~gsGUIisRunning]_vars

\* a request for a game level has started the cutscene
C27_Witness ==
    /\ gsCall = <<"SceneChangedEvent", 4>>
    /\ gsState = CUTSCENE
    /\ gsNextState = 4
    /\ timerResets = 1

-----------------------------------------------------------------------------
(* VK_Device::PickPhysicalDevice, IsPreferredDevice, IsSuitableDevice.        *)
(* Strings are sequences of characters.                                       *)

\* std::tolower on one character
ToLowerChar(c) == IF c = "A" THEN "a" ELSE IF c = "B" THEN "b" ELSE c

\* std::transform(..., std::tolower)
ToLower(str) == [i \in DOMAIN str |-> ToLowerChar(str[i])]

\* std::string::npos
Npos == -1

\* std::string::find: the first position (from 0) at which sub occurs in str,
\* or npos; the empty string occurs at position 0 of every string
Find(str, sub) ==
    LET positions == {pos \in 0..(Len(str) - Len(sub)) :
                          \A i \in 1..Len(sub) : str[pos + i] = sub[i]}
    IN  IF positions = {} THEN Npos
        ELSE CHOOSE pos \in positions : \A other \in positions : pos <= other

DeviceNames == {<<"a", "B">>, <<"b">>}

BlacklistStrings == {<<>>, <<"A">>, <<"b">>, <<"c">>}

PhysicalDevice ==
    [deviceName : DeviceNames, discrete : BOOLEAN, queueFamiliesComplete : BOOLEAN,
     extensionsSupported : BOOLEAN, swapChainAdequate : BOOLEAN,
     samplerAnisotropy : BOOLEAN]

\* the swap chain is queried only when the extensions are supported
PickInit ==
    /\ \E n \in 1..MaxDevices : physicalDevices \in [1..n -> PhysicalDevice]
    /\ \A i \in DOMAIN physicalDevices :
           physicalDevices[i].swapChainAdequate => physicalDevices[i].extensionsSupported
    /\ m_BlacklistedDevice \in BlacklistStrings
    /\ m_PhysicalDevice = 0
    /\ m_Properties = 0
    /\ ignoredBlacklisted = {}
    /\ pickCall = "none"

PickIdle ==
    /\ physicalDevices = <<>>
    /\ m_BlacklistedDevice = <<>>
    /\ m_PhysicalDevice = 0
    /\ m_Properties = 0
    /\ ignoredBlacklisted = {}
    /\ pickCall = "idle"

\* IsSuitableDevice, lines 303-307: name.find(blacklisted) != std::string::npos
IsBlacklisted(device) ==
    Find(ToLower(device.deviceName), ToLower(m_BlacklistedDevice)) # Npos

\* VK_Device::IsSuitableDevice
IsSuitableDevice(device) ==
    /\ ~IsBlacklisted(device)
    /\ device.queueFamiliesComplete
    /\ device.extensionsSupported
    /\ device.swapChainAdequate
    /\ device.samplerAnisotropy

\* VK_Device::IsPreferredDevice
IsPreferredDevice(device) == IsSuitableDevice(device) /\ device.discrete

\* the first of a set of device indices in enumeration order, or 0
FirstDevice(indices) ==
    IF indices = {} THEN 0
    ELSE CHOOSE i \in indices : \A j \in indices : i <= j

\* VK_Device::PickPhysicalDevice: the first preferred device, else the first
\* suitable device.  IsSuitableDevice reads the properties of every device it
\* looks at into m_Properties; they are read again for the selected device.
PickPhysicalDevice ==
    /\ pickCall = "none"
    /\ LET preferred == FirstDevice({i \in DOMAIN physicalDevices :
                                        IsPreferredDevice(physicalDevices[i])})
           suitable == FirstDevice({i \in DOMAIN physicalDevices :
                                       IsSuitableDevice(physicalDevices[i])})
           selected == IF preferred # 0 THEN preferred ELSE suitable
           examined == IF preferred # 0 THEN 1..preferred
                       ELSE IF suitable # 0 THEN DOMAIN physicalDevices \cup 1..suitable
                       ELSE DOMAIN physicalDevices
       IN  /\ m_PhysicalDevice' = selected
           /\ m_Properties' = IF selected # 0 THEN selected ELSE Len(physicalDevices)
           /\ ignoredBlacklisted' = {i \in examined : IsBlacklisted(physicalDevices[i])}
    /\ pickCall' = "PickPhysicalDevice"
    /\ UNCHANGED <<physicalDevices, m_BlacklistedDevice>>
    /\ PickRest

PickNext == PickPhysicalDevice

\* a device with complete queue families, the extensions, an adequate swap
\* chain and sampler anisotropy, whose name does not contain a configured
\* (non-empty) blacklist string
Acceptable(device) ==
    /\ device.queueFamiliesComplete
    /\ device.extensionsSupported
    /\ device.swapChainAdequate
    /\ device.samplerAnisotropy
    /\ (m_BlacklistedDevice = <<>>
        \/ Find(ToLower(device.deviceName), ToLower(m_BlacklistedDevice)) = Npos)

\* C28: PickPhysicalDevice selects a discrete GPU whenever a suitable discrete
\* device is enumerated, else the first suitable device, and never a device that
\* is blacklisted or lacks a required capability; with an empty blacklist
\* string no device is rejected as blacklisted; m_Properties describes the
\* selected device.
C28_PicksDiscreteElseFirstSuitable ==
    pickCall = "PickPhysicalDevice" =>
        LET acceptable == {i \in DOMAIN physicalDevices : Acceptable(physicalDevices[i])}
            discrete == {i \in acceptable : physicalDevices[i].discrete}
        IN  /\ discrete # {} => m_PhysicalDevice \in discrete
            /\ (discrete = {} /\ acceptable # {}) =>
                   /\ m_PhysicalDevice \in acceptable
                   /\ \A i \in acceptable : m_PhysicalDevice <= i
            /\ m_PhysicalDevice # 0 => m_PhysicalDevice \in acceptable
            /\ m_BlacklistedDevice = <<>> => ignoredBlacklisted = {}
            /\ m_PhysicalDevice # 0 => m_Properties = m_PhysicalDevice

-----------------------------------------------------------------------------
(* VK_Device::VK_Device, VK_Device::~VK_Device and VK_Device::Shutdown.       *)

Handles ==
    {"m_Instance", "m_DebugMessenger", "m_Surface", "m_PhysicalDevice", "m_Device",
     "m_GraphicsCommandPool", "m_LoadCommandPool"}

LifetimeInit ==
    /\ m_EnableValidationLayers \in BOOLEAN
    /\ lifetimePc = "none"
    /\ vkCalls = <<>>
    /\ vkHandles = [h \in Handles |-> "none"]
    /\ waitedIdle = {}

LifetimeIdle ==
    /\ m_EnableValidationLayers = FALSE
    /\ lifetimePc = "idle"
    /\ vkCalls = <<>>
    /\ vkHandles = [h \in Handles |-> "none"]
    /\ waitedIdle = {}

\* the body of the constructor
ConstructorCalls ==
    <<"CreateInstance", "SetupDebugMessenger", "CreateSurface", "PickPhysicalDevice",
      "CreateLogicalDevice", "CreateCommandPool">>

\* VK_Device::VK_Device.  SetupDebugMessenger returns at once when the
\* validation layers are disabled; a failed creation is logged and the
\* constructor goes on.
VK_DeviceConstructor ==
    /\ lifetimePc = "none"
    /\ \E instance \in VkResults, messenger \in VkResults, device \in VkResults,
          graphicsPool \in VkResults, loadPool \in VkResults :
          vkHandles' = [vkHandles EXCEPT
              !["m_Instance"] = VkCreate(instance),
              !["m_DebugMessenger"] =
                  IF m_EnableValidationLayers THEN VkCreate(messenger) ELSE "none",
              !["m_Surface"] = "created",
              !["m_PhysicalDevice"] = "created",
              !["m_Device"] = VkCreate(device),
              !["m_GraphicsCommandPool"] = VkCreate(graphicsPool),
              !["m_LoadCommandPool"] = VkCreate(loadPool)]
    /\ vkCalls' = ConstructorCalls
    /\ lifetimePc' = "alive"
    /\ UNCHANGED <<m_EnableValidationLayers, waitedIdle>>
    /\ LifetimeRest

\* VK_Device::Shutdown: vkQueueWaitIdle on m_DeviceQueues[i] for every i below
\* DeviceQueues::NUMBER_OF_QUEUES
Shutdown ==
    /\ lifetimePc = "alive"
    /\ waitedIdle' = waitedIdle \cup DeviceQueues
    /\ lifetimePc' = "shut down"
    /\ UNCHANGED <<m_EnableValidationLayers, vkCalls, vkHandles>>
    /\ LifetimeRest

\* a destructor that destroys the instance first
DestructorCallsInstanceFirst(enableValidationLayers) ==
    <<"vkDestroyInstance", "vkDestroySurfaceKHR">>
    \o (IF enableValidationLayers THEN <<"DestroyDebugUtilsMessengerEXT">> ELSE <<>>)
    \o <<"vkDestroyDevice", "vkDestroyCommandPool m_LoadCommandPool",
         "vkDestroyCommandPool m_GraphicsCommandPool">>

\* the body of the destructor
DestructorCalls(enableValidationLayers) ==
    <<"vkDestroyCommandPool m_GraphicsCommandPool",
      "vkDestroyCommandPool m_LoadCommandPool", "vkDestroyDevice">>
    \o (IF enableValidationLayers THEN <<"DestroyDebugUtilsMessengerEXT">> ELSE <<>>)
    \o <<"vkDestroySurfaceKHR", "vkDestroyInstance">>

\* VK_Device::~VK_Device: every object that was created is destroyed; the
\* physical device is not an object of its own
VK_DeviceDestructor ==
    /\ lifetimePc \in {"alive", "shut down"}
    /\ vkCalls' = vkCalls \o DestructorCalls(m_EnableValidationLayers)
    /\ vkHandles' = [h \in Handles |->
                         IF h # "m_PhysicalDevice" /\ vkHandles[h] = "created"
                         THEN "destroyed" ELSE vkHandles[h]]
    /\ lifetimePc' = "destroyed"
    /\ UNCHANGED <<m_EnableValidationLayers, waitedIdle>>
    /\ LifetimeRest

LifetimeNext ==
    \/ VK_DeviceConstructor
    \/ Shutdown
    \/ VK_DeviceDestructor

\* call a was made, and before any call b
Precedes(a, b) ==
    /\ \E i \in DOMAIN vkCalls : vkCalls[i] = a
    /\ \A i, j \in DOMAIN vkCalls : (vkCalls[i] = a /\ vkCalls[j] = b) => i < j

\* C30: the constructor creates instance, debug messenger, surface, physical
\* device, logical device and command pools in that order; the destructor
\* destroys both command pools before the logical device, the logical device
\* before the surface, and the debug messenger and the surface before the
\* instance; Shutdown has waited idle on every device queue.
C30_BuildAndTearDownInOrder ==
    /\ lifetimePc # "none" =>
           /\ Len(vkCalls) >= 6
           /\ SubSeq(vkCalls, 1, 6) =
                  <<"CreateInstance", "SetupDebugMessenger", "CreateSurface",
                    "PickPhysicalDevice", "CreateLogicalDevice", "CreateCommandPool">>
    /\ lifetimePc = "destroyed" =>
           /\ Precedes("vkDestroyCommandPool m_GraphicsCommandPool", "vkDestroyDevice")
           /\ Precedes("vkDestroyCommandPool m_LoadCommandPool", "vkDestroyDevice")
           /\ Precedes("vkDestroyDevice", "vkDestroySurfaceKHR")
           /\ Precedes("vkDestroySurfaceKHR", "vkDestroyInstance")
           /\ m_EnableValidationLayers =>
                  Precedes("DestroyDebugUtilsMessengerEXT", "vkDestroyInstance")
           /\ \E i \in DOMAIN vkCalls : vkCalls[i] = "vkDestroyInstance"
    /\ lifetimePc = "shut down" => waitedIdle = {"LOAD_QUEUE", "GRAPHICS_QUEUE"}

\* the device was built with the validation layers, shut down and destroyed
C30_Witness ==
    /\ lifetimePc = "destroyed"
    /\ m_EnableValidationLayers
    /\ waitedIdle = {"LOAD_QUEUE", "GRAPHICS_QUEUE"}
    /\ Len(vkCalls) = 12

-----------------------------------------------------------------------------
(* Specifications: each part of the program on its own, the others at rest  *)

InitOf(part) ==
    /\ IF part = "transform" THEN TransformInit ELSE TransformIdle
    /\ IF part = "frame" THEN FrameInit ELSE FrameIdle
    /\ IF part = "mesh" THEN MeshInit ELSE MeshIdle
    /\ IF part = "light" THEN LightInit ELSE LightIdle
    /\ IF part = "script" THEN ScriptInit ELSE ScriptIdle
    /\ IF part = "engine" THEN EngineInit ELSE EngineIdle
    /\ IF part = "dict" THEN DictInit ELSE DictIdle
    /\ IF part = "device" THEN DeviceInit ELSE DeviceIdle
    /\ IF part = "shadow" THEN ShadowInit ELSE ShadowIdle
    /\ IF part = "upload" THEN UploadInit ELSE UploadIdle
    /\ IF part = "queue" THEN QueueInit ELSE QueueIdle
    /\ IF part = "entry" THEN EntryInit ELSE EntryIdle
    /\ IF part = "gamestate" THEN GamestateInit ELSE GamestateIdle
    /\ IF part = "pick" THEN PickInit ELSE PickIdle
    /\ IF part = "lifetime" THEN LifetimeInit ELSE LifetimeIdle

SpecTransform == InitOf("transform") /\ [][TransformNext]_vars

SpecFrame == InitOf("frame") /\ [][FrameNext]_vars

SpecMesh == InitOf("mesh") /\ [][MeshNext]_vars

SpecLight == InitOf("light") /\ [][LightNext]_vars

SpecScript == InitOf("script") /\ [][ScriptNext]_vars

SpecEngine == InitOf("engine") /\ [][EngineNext]_vars

SpecDict == InitOf("dict") /\ [][DictNext]_vars

SpecDevice == InitOf("device") /\ [][DeviceNext]_vars

SpecShadow == InitOf("shadow") /\ [][ShadowNext]_vars

SpecUpload == InitOf("upload") /\ [][UploadNext]_vars

SpecQueue == InitOf("queue") /\ [][QueueNext]_vars

SpecEntry == InitOf("entry") /\ [][EntryNext]_vars

SpecGamestate == InitOf("gamestate") /\ [][GamestateNext]_vars

SpecPick == InitOf("pick") /\ [][PickNext]_vars

SpecLifetime == InitOf("lifetime") /\ [][LifetimeNext]_vars

\* the main loop calls RunScripts in every frame
SpecScriptFair == SpecScript /\ WF_vars(RunScripts)
====
